---- MODULE Spec2Model ----
(***************************************************************************)
(* A model of the websrv networking core (manofsteal/web-server):          *)
(*   - the reactor layer: Poller, PollablePool, BufferManager, Socket,     *)
(*     SocketManager, ListenerManager, NetworkSystem  (src/src/websrv,     *)
(*     src/include/websrv);                                                *)
(*   - the callback layer built on it: Poller::start's dispatch loop,      *)
(*     HttpServer, WebSocketConnection / WebSocketClient (src/*.cpp).      *)
(* Each part has its own specification over the shared variables; the      *)
(* variables of the other parts stay at their initial values.              *)
(***************************************************************************)
EXTENDS Integers, Sequences, FiniteSets, TLC

(***************************************************************************)
(* Bounds of the model.                                                    *)
(***************************************************************************)
MaxPollables == 2
MaxBuffers == 2
MaxQueue == 2
MaxReady == 1
MaxChunks == 1

IDs == 0 .. (MaxPollables - 1)
BufIds == 1 .. MaxBuffers
NoBuf == 0

\* The soft threshold of Socket::handleRead: a tail buffer that has reached
\* this size is not appended to any more.
ReadThreshold == 4096

VARIABLES
    \* ---- reactor layer -------------------------------------------------
    next_id,                \* PollableIDManager::next_id
    sockets,                \* poolManager.sockets.items   (keys)
    listeners,              \* poolManager.listeners.items (keys)
    file_descriptor,        \* Pollable::file_descriptor: "none" (-1), "open", "stale" (closed, value kept)
    pollEntries,            \* Poller::pollEntries (keys)
    pollout_pending,        \* ids whose POLLOUT interest is on
    sockets_,               \* SocketManager::sockets_   (keys)
    listeners_,             \* ListenerManager::listeners_ (keys)
    pending_read_buffers,   \* Socket::pending_read_buffers,  per id
    pending_write_buffers,  \* Socket::pending_write_buffers, per id
    data_,                  \* Buffer::data_, per buffer: a sequence of chunks
    all_buffers_,           \* BufferManager::all_buffers_.size()
    free_buffers_,          \* BufferManager::free_buffers_
    held,                   \* buffers owned by the application
    events,                 \* the NetworkEvent list of the last NetworkSystem::poll
    sent,                   \* per socket: the bytes the kernel accepted in the last poll
    touched,                \* a destroyed pollable has been dereferenced
    last                    \* the last operation performed

coreVars == << next_id, sockets, listeners, file_descriptor, pollEntries,
               pollout_pending, sockets_, listeners_, pending_read_buffers,
               pending_write_buffers, data_, all_buffers_, free_buffers_, held,
               events, sent, touched, last >>


(***************************************************************************)
(* Byte strings.  A buffer holds a sequence of chunks; a chunk is n equal  *)
(* bytes v, so that a full 4096-byte read is one chunk.                    *)
(***************************************************************************)
Chunk(n, v) == [n |-> n, v |-> v]

RECURSIVE Size(_)
Size(d) == IF d = << >> THEN 0 ELSE Head(d).n + Size(Tail(d))

RECURSIVE Flatten(_, _)
\* the concatenation of the contents of the buffers of queue q
Flatten(q, dat) == IF q = << >> THEN << >> ELSE dat[Head(q)] \o Flatten(Tail(q), dat)

RECURSIVE Count(_, _)
Count(q, b) == IF q = << >> THEN 0
               ELSE (IF Head(q) = b THEN 1 ELSE 0) + Count(Tail(q), b)

RECURSIVE SumOver(_, _, _)
SumOver(S, q, b) == IF S = {} THEN 0
                    ELSE LET i == CHOOSE x \in S : TRUE
                         IN  Count(q[i], b) + SumOver(S \ {i}, q, b)

Last(q) == q[Len(q)]
Front(q) == SubSeq(q, 1, Len(q) - 1)
MinOf(S) == CHOOSE x \in S : \A y \in S : x <= y

RECURSIVE TakeBytes(_, _)
\* the first k bytes of byte string d
TakeBytes(d, k) ==
    IF k = 0 \/ d = << >> THEN << >>
    ELSE IF Head(d).n <= k THEN << Head(d) >> \o TakeBytes(Tail(d), k - Head(d).n)
    ELSE << Chunk(k, Head(d).v) >>

(***************************************************************************)
(* BufferManager (src/include/websrv/buffer_manager.hpp).  A pool state is *)
(* the record [all, free, dat]: buffers 1..all exist, free is the free     *)
(* list, dat the contents.                                                 *)
(***************************************************************************)
\* BufferManager::getWriteBuffer: a fresh buffer when the free list is
\* empty, else the back of the free list.
getWriteBuffer(all, free) ==
    IF free = << >>
    THEN [buf |-> all + 1, all |-> all + 1, free |-> free]
    ELSE [buf |-> Last(free), all |-> all, free |-> Front(free)]

\* BufferManager::releaseBuffer: clear and push on the free list.
releaseBuffer(b, free, dat) ==
    IF b = NoBuf THEN [free |-> free, dat |-> dat]
    ELSE [free |-> Append(free, b), dat |-> [dat EXCEPT ![b] = << >>]]

\* a release loop that stops after the first buffer
releaseFirst(q, free, dat) ==
    IF q = << >> THEN [free |-> free, dat |-> dat]
    ELSE releaseBuffer(Head(q), free, dat)

RECURSIVE releaseAll(_, _, _)
\* the release loops of Socket::~Socket and Socket::clearReadBuffer
releaseAll(q, free, dat) ==
    IF q = << >> THEN [free |-> free, dat |-> dat]
    ELSE LET r == releaseBuffer(Head(q), free, dat)
         IN  releaseAll(Tail(q), r.free, r.dat)

(***************************************************************************)
(* Socket I/O handlers (src/src/websrv/socket.cpp), on a tick state        *)
(*   st = [rq, wq, dat, all, free, sent, res, peer]; peer[s] is the byte   *)
(*   the peer of socket s sends.                                           *)
(***************************************************************************)
\* the bytes the peer of socket s sends when every peer sends its own
PeerByte(s) == s + 1
PeerBytes == [s \in IDs |-> PeerByte(s)]
\* the bytes the peers send when all send the same
SameBytes == [s \in IDs |-> 1]

\* a handleRead that assigns the bytes to the buffer instead of appending
handleReadAssign(st, s, fd, rd) ==
    IF fd = "none" THEN [st |-> st, ok |-> FALSE]
    ELSE
      LET needNew == st.rq[s] = << >> \/ Size(st.dat[Last(st.rq[s])]) >= ReadThreshold
          g   == getWriteBuffer(st.all, st.free)
          buf == IF needNew THEN g.buf ELSE Last(st.rq[s])
          s1  == IF needNew
                 THEN [st EXCEPT !.all = g.all, !.free = g.free,
                                 !.rq = [@ EXCEPT ![s] = Append(@, buf)]]
                 ELSE st
          got == IF rd = "data" THEN << Chunk(1, st.peer[s]) >>
                 ELSE IF rd = "full" THEN << Chunk(ReadThreshold, st.peer[s]) >>
                 ELSE << >>
      IN  IF got # << >> /\ buf \in DOMAIN s1.dat
          THEN [st |-> [s1 EXCEPT !.dat = [@ EXCEPT ![buf] = got]], ok |-> TRUE]
          ELSE [st |-> s1, ok |-> got # << >>]

\* Socket::handleRead; rd is what ::read() returns: "data" (a short read),
\* "full" (4096 bytes), "eof" (0), "again" (-1 with EAGAIN / EWOULDBLOCK) or
\* "fail" (-1 with another errno).
handleRead(st, s, fd, rd) ==
    IF fd = "none" THEN [st |-> st, ok |-> FALSE]
    ELSE
      LET needNew == st.rq[s] = << >> \/ Size(st.dat[Last(st.rq[s])]) >= ReadThreshold
          g   == getWriteBuffer(st.all, st.free)
          buf == IF needNew THEN g.buf ELSE Last(st.rq[s])
          s1  == IF needNew
                 THEN [st EXCEPT !.all = g.all, !.free = g.free,
                                 !.rq = [@ EXCEPT ![s] = Append(@, buf)]]
                 ELSE st
          got == IF rd = "data" THEN << Chunk(1, st.peer[s]) >>
                 ELSE IF rd = "full" THEN << Chunk(ReadThreshold, st.peer[s]) >>
                 ELSE << >>
      IN  IF got # << >> /\ buf \in DOMAIN s1.dat
          THEN [st |-> [s1 EXCEPT !.dat = [@ EXCEPT ![buf] = @ \o got]], ok |-> TRUE]
          ELSE [st |-> s1, ok |-> got # << >>]

\* Socket::handleWrite; k is what ::write() returns for the head buffer
\* (0 stands for a failed write).
handleWrite(st, s, fd, k) ==
    IF fd = "none" \/ st.wq[s] = << >> THEN st
    ELSE
      LET buffer == Head(st.wq[s])
          rel    == releaseBuffer(buffer, st.free, st.dat)
          popped == [st EXCEPT !.wq = [@ EXCEPT ![s] = Tail(@)],
                               !.free = rel.free, !.dat = rel.dat]
      IN  IF Size(st.dat[buffer]) = 0 THEN popped
          ELSE IF k > 0
               THEN [popped EXCEPT !.sent = [@ EXCEPT ![s] = @ \o TakeBytes(st.dat[buffer], k)]]
               ELSE st

\* Socket::handleError / Pollable::handleError: POLLERR | POLLHUP | POLLNVAL.
handleError(rev) == rev.err

(***************************************************************************)
(* One readiness report per registered pollable, as poll(2) can give it:   *)
(*   err  one of POLLERR / POLLHUP / POLLNVAL is set,                      *)
(*   rd   "none" (no POLLIN) or what ::read / ::accept will return,        *)
(*   wr   -1 (no POLLOUT) or what ::write will return (0: it fails).       *)
(***************************************************************************)
NoEvent == [err |-> FALSE, rd |-> "none", wr |-> -1]

HeadSize(s) == IF pending_write_buffers[s] = << >> THEN 0
               ELSE Size(data_[Head(pending_write_buffers[s])])

\* what ::write can return for a buffer of the given size: -1 stands for no
\* POLLOUT, 0 for a failed write; of the partial writes the one of a single
\* byte is taken
WriteResults(size) == { -1, 0 } \cup { k \in { 1, size } : k <= size }

\* Poller::poll's readiness set: POLLIN for every registered pollable, plus
\* POLLOUT where enablePollout asked for it; a negative fd is ignored by
\* poll(2), a closed one reports POLLNVAL.  With an error bit set the
\* other bits are not looked at, so they are left out of the report.
Readiness(id, Rd) ==
    IF file_descriptor[id] = "none" THEN { NoEvent }
    ELSE IF file_descriptor[id] = "stale"
    THEN { NoEvent, [err |-> TRUE, rd |-> "none", wr |-> -1] }
    ELSE IF id \in listeners
    THEN { [err |-> FALSE, rd |-> r, wr |-> -1] : r \in {"none", "conn", "again"} }
    ELSE { [err |-> TRUE, rd |-> "none", wr |-> -1] }
         \cup
         { [err |-> FALSE, rd |-> r, wr |-> w] :
             r \in {"none"} \cup Rd,
             w \in IF id \in pollout_pending THEN WriteResults(HeadSize(id)) ELSE { -1 } }

IsEvent(rev) == rev.err \/ rev.rd # "none" \/ rev.wr # -1

\* a loop body that takes every POLLIN for data
processEventData(st, s, mgr, fd, rev) ==
    IF s \notin mgr \/ ~IsEvent(rev) THEN st
    ELSE IF handleError(rev)
    THEN [st EXCEPT !.res = Append(@, [type |-> "SOCKET_ERROR", socket |-> s])]
    ELSE
      LET r  == handleRead(st, s, fd[s], rev.rd)
          s1 == IF rev.rd = "none" THEN st
                ELSE [r.st EXCEPT !.res = Append(@, [type |-> "SOCKET_DATA", socket |-> s])]
      IN  IF rev.wr # -1 THEN handleWrite(s1, s, fd[s], rev.wr) ELSE s1

\* a loop body without the lookup in sockets_
processEventAll(st, s, mgr, fd, rev) ==
    IF ~IsEvent(rev) \/ s \in listeners THEN st
    ELSE IF handleError(rev)
    THEN [st EXCEPT !.res = Append(@, [type |-> "SOCKET_ERROR", socket |-> s])]
    ELSE
      LET r  == handleRead(st, s, fd[s], rev.rd)
          s1 == IF rev.rd = "none" THEN st
                ELSE [r.st EXCEPT !.res = Append(@,
                        [type |-> IF r.ok THEN "SOCKET_DATA" ELSE "SOCKET_CLOSED",
                         socket |-> s])]
      IN  IF rev.wr # -1 THEN handleWrite(s1, s, fd[s], rev.wr) ELSE s1

\* SocketManager::process, the body of the loop over the events, for the
\* event of pollable s (src/src/websrv/socket_manager.cpp:21-48).
processEvent(st, s, mgr, fd, rev) ==
    IF s \notin mgr \/ ~IsEvent(rev) THEN st
    ELSE IF handleError(rev)
    THEN [st EXCEPT !.res = Append(@, [type |-> "SOCKET_ERROR", socket |-> s])]
    ELSE
      LET r  == handleRead(st, s, fd[s], rev.rd)
          s1 == IF rev.rd = "none" THEN st
                ELSE [r.st EXCEPT !.res = Append(@,
                        [type |-> IF r.ok THEN "SOCKET_DATA" ELSE "SOCKET_CLOSED",
                         socket |-> s])]
      IN  IF rev.wr # -1 THEN handleWrite(s1, s, fd[s], rev.wr) ELSE s1

RECURSIVE processEvents(_, _, _, _, _)
\* the loop over the events, in the order of the registry (ascending ids)
processEvents(st, ids, mgr, fd, rev) ==
    IF ids = {} THEN st
    ELSE LET s == MinOf(ids)
         IN  processEvents(processEvent(st, s, mgr, fd, rev[s]), ids \ {s}, mgr, fd, rev)

\* Poller::enablePollout (src/src/websrv/poller.cpp:43-45)
enablePollout(pending, id) == pending \cup {id}

\* Poller::disablePollout: declared in src/include/websrv/poller.hpp:66, its
\* body is not part of the sources; it withdraws the POLLOUT interest.
disablePollout(pending, id) == pending \ {id}

\* a reconciliation that withdraws POLLOUT from every registered socket
reconcileDropping(pending, mgr, wq) == pending \ mgr

\* a reconciliation without the else branch: POLLOUT is never withdrawn
reconcileEnableOnly(pending, mgr, wq) ==
    pending \cup { s \in mgr : Len(wq[s]) > 0 }

RECURSIVE reconcile(_, _, _)
\* SocketManager::process, the loop over sockets_ after the events
\* (src/src/websrv/socket_manager.cpp:53-64)
reconcile(pending, mgr, wq) ==
    IF mgr = {} THEN pending
    ELSE LET s == MinOf(mgr)
             p == IF Len(wq[s]) > 0 THEN enablePollout(pending, s)
                  ELSE disablePollout(pending, s)
         IN  reconcile(p, mgr \ {s}, wq)

RECURSIVE ReadinessReports(_, _, _)
\* every assignment of a readiness report to the pollables of S in which at
\* most n pollables are ready
ReadinessReports(S, Rd, n) ==
    IF S = {} THEN { << >> }
    ELSE LET i == MinOf(S)
         IN  { (i :> NoEvent) @@ f : f \in ReadinessReports(S \ {i}, Rd, n) }
             \cup
             (IF n = 0 THEN {}
              ELSE { (i :> r) @@ f : r \in Readiness(i, Rd) \ { NoEvent },
                                     f \in ReadinessReports(S \ {i}, Rd, n - 1) })

RECURSIVE Ascending(_)
\* the elements of a set of numbers as an ascending sequence
Ascending(S) == IF S = {} THEN << >>
                ELSE << MinOf(S) >> \o Ascending(S \ {MinOf(S)})

(***************************************************************************)
(* PollablePool / Poller registry (src/pollable_pool.hpp,                  *)
(* src/src/websrv/poller.cpp).                                             *)
(***************************************************************************)
\* PollableIDManager::allocate: return next_id++ (the counter stays far
\* below 2^32 within the bounds of the model)
allocate(n) == [id |-> n, next |-> n + 1]

\* PollablePool::create: items[id], a default-constructed item when absent
PoolCreate(items, id) == items \cup {id}

\* an erase of the range from id to the end instead of the one key
PoolDestroyRange(items, id) == { i \in items : i < id }

\* PollablePool::destroy: items.erase(id)
PoolDestroy(items, id) == items \ {id}

\* Poller::addPollable: pollEntries[id] = {pollable, POLLIN}
addPollable(entries, id) == entries \cup {id}

EmptyQueues == [i \in IDs |-> << >>]

\* the record of the last call made on the NetworkSystem / Poller interface;
\* the calls on a Socket or a Buffer are all recorded as Used
Op(name, id, was) == [op |-> name, id |-> id, was |-> was]
Used == Op("socket", -1, FALSE)

\* NetworkSystem::poll: Poller::poll, ListenerManager::process, the
\* registration of the accepted sockets, SocketManager::process.
TickWith(rev, chunks, peer) ==
      LET ready    == { i \in pollEntries : IsEvent(rev[i]) }
          conns    == Ascending({ l \in ready \cap listeners_ : rev[l].rd = "conn" })
          n        == Len(conns)
          newIds   == { next_id + k - 1 : k \in 1 .. n }
          accepted == [k \in 1 .. n |-> [type |-> "ACCEPTED", socket |-> next_id + k - 1]]
          mgr      == sockets_ \cup newIds
          fd       == [i \in IDs |-> IF i \in newIds THEN "open" ELSE file_descriptor[i]]
          st0      == [rq |-> pending_read_buffers, wq |-> pending_write_buffers,
                       dat |-> data_, all |-> all_buffers_, free |-> free_buffers_,
                       sent |-> EmptyQueues, res |-> << >>, peer |-> peer]
          st       == processEvents(st0, ready, mgr, fd, rev)
          live     == mgr \cap (sockets \cup newIds)
      IN  /\ next_id + n <= MaxPollables
          /\ st.all <= MaxBuffers
          /\ \A s \in IDs : \A k \in DOMAIN st.rq[s] : Len(st.dat[st.rq[s][k]]) <= chunks
          /\ next_id' = next_id + n
          /\ sockets' = sockets \cup newIds
          /\ pollEntries' = pollEntries \cup newIds
          /\ file_descriptor' = fd
          /\ sockets_' = mgr
          /\ pending_read_buffers' = st.rq
          /\ pending_write_buffers' = st.wq
          /\ data_' = st.dat
          /\ all_buffers_' = st.all
          /\ free_buffers_' = st.free
          /\ sent' = st.sent
          /\ events' = accepted \o st.res
          \* the loop over sockets_ dereferences every registered Socket*; for
          \* a destroyed one the read is of freed memory and either call may
          \* result
          /\ \E D \in SUBSET (mgr \ live) :
                pollout_pending' = (reconcile(pollout_pending, live, st.wq) \ (mgr \ live)) \cup D
          /\ touched' = (touched \/ mgr # live)
          /\ last' = Op("poll", -1, FALSE)
          /\ UNCHANGED << listeners, listeners_, held >>

\* a tick for any readiness poll(2) can report, the reads returning one of Rd
Tick(Rd) == \E rev \in ReadinessReports(pollEntries, Rd, MaxReady) : TickWith(rev, MaxChunks, SameBytes)

\* The readiness poll(2) reports when every peer can take data and nothing
\* else happens: POLLOUT, and a ::write that accepts the whole head buffer,
\* for every open socket whose POLLOUT interest is on.
WritableReport ==
    [i \in pollEntries |->
        IF i \in sockets /\ i \in pollout_pending /\ file_descriptor[i] = "open"
        THEN [err |-> FALSE, rd |-> "none", wr |-> HeadSize(i)]
        ELSE NoEvent]

\* a tick in which every peer is writable
TickWritable == TickWith(WritableReport, MaxChunks, SameBytes)

\* a tick in which poll(2) reports any readiness for writing: no POLLOUT,
\* a ::write that fails, a partial one, a complete one
TickWrite ==
    \E rev \in ReadinessReports(pollEntries, { }, MaxReady) :
        /\ \A i \in pollEntries : ~ rev[i].err
        /\ TickWith(rev, MaxChunks, SameBytes)

\* the byte strings the application writes
AppData == { << Chunk(1, 1), Chunk(1, 2) >> }

\* what Listener::start / Socket::start leave in file_descriptor: "ok"
\* an open descriptor, "fail" a descriptor closed again after a failed
\* bind / listen / connect (its number is kept), "nofd" -1 (socket() failed)
StartResults == { "ok", "fail", "nofd" }
FdAfter(res) == IF res = "ok" THEN "open" ELSE IF res = "fail" THEN "stale" ELSE "none"

\* NetworkSystem::createListener; last.was tells that the call returned a
\* listener and not nullptr
CreateListener(res) ==
    LET a == allocate(next_id) IN
    /\ next_id < MaxPollables
    /\ next_id' = a.next
    /\ listeners' = PoolCreate(listeners, a.id)
    /\ pollEntries' = addPollable(pollEntries, a.id)
    /\ file_descriptor' = [file_descriptor EXCEPT ![a.id] = FdAfter(res)]
    /\ listeners_' = IF res = "ok" THEN listeners_ \cup {a.id} ELSE listeners_
    /\ last' = Op("createListener", -1, res = "ok")
    /\ UNCHANGED << sockets, pollout_pending, sockets_, pending_read_buffers,
                    pending_write_buffers, data_, all_buffers_, free_buffers_,
                    held, events, sent, touched >>

\* NetworkSystem::createSocket: the result of Socket::start is ignored, the
\* call returns the socket (last.was)
CreateSocket(res) ==
    LET a == allocate(next_id) IN
    /\ next_id < MaxPollables
    /\ next_id' = a.next
    /\ sockets' = PoolCreate(sockets, a.id)
    /\ pollEntries' = addPollable(pollEntries, a.id)
    /\ file_descriptor' = [file_descriptor EXCEPT ![a.id] = FdAfter(res)]
    /\ sockets_' = sockets_ \cup {a.id}
    /\ last' = Op("createSocket", -1, TRUE)
    /\ UNCHANGED << listeners, pollout_pending, listeners_, pending_read_buffers,
                    pending_write_buffers, data_, all_buffers_, free_buffers_,
                    held, events, sent, touched >>

\* toBuffer: Pollable::getBuffer() and Buffer::append(d)
AppGetBuffer(d) ==
    LET g == getWriteBuffer(all_buffers_, free_buffers_) IN
    /\ g.all <= MaxBuffers
    /\ all_buffers_' = g.all
    /\ free_buffers_' = g.free
    /\ data_' = [data_ EXCEPT ![g.buf] = @ \o d]
    /\ held' = held \cup {g.buf}
    /\ last' = Used
    /\ UNCHANGED << next_id, sockets, listeners, file_descriptor, pollEntries,
                    pollout_pending, sockets_, listeners_, pending_read_buffers,
                    pending_write_buffers, events, sent, touched >>

\* Pollable::releaseBuffer of a buffer the application owns
AppRelease(b) ==
    LET r == releaseBuffer(b, free_buffers_, data_) IN
    /\ b \in held
    /\ held' = held \ {b}
    /\ free_buffers_' = r.free
    /\ data_' = r.dat
    /\ last' = Used
    /\ UNCHANGED << next_id, sockets, listeners, file_descriptor, pollEntries,
                    pollout_pending, sockets_, listeners_, pending_read_buffers,
                    pending_write_buffers, all_buffers_, events, sent, touched >>

\* Socket::write (src/src/websrv/socket.cpp:86-95)
socketWrite(wq, s, buffer) ==
    IF buffer = NoBuf THEN wq ELSE [wq EXCEPT ![s] = Append(@, buffer)]

Write(s, b) ==
    /\ s \in sockets
    /\ b \in held
    /\ Len(pending_write_buffers[s]) < MaxQueue
    /\ pending_write_buffers' = socketWrite(pending_write_buffers, s, b)
    /\ held' = held \ {b}
    /\ last' = Used
    /\ UNCHANGED << next_id, sockets, listeners, file_descriptor, pollEntries,
                    pollout_pending, sockets_, listeners_, pending_read_buffers,
                    data_, all_buffers_, free_buffers_, events, sent, touched >>

\* Socket::read: the whole read queue goes to the caller
Read(s) ==
    /\ s \in sockets
    /\ pending_read_buffers[s] # << >>
    /\ held' = held \cup { pending_read_buffers[s][k] : k \in 1 .. Len(pending_read_buffers[s]) }
    /\ pending_read_buffers' = [pending_read_buffers EXCEPT ![s] = << >>]
    /\ last' = Used
    /\ UNCHANGED << next_id, sockets, listeners, file_descriptor, pollEntries,
                    pollout_pending, sockets_, listeners_, pending_write_buffers,
                    data_, all_buffers_, free_buffers_, events, sent, touched >>

\* Socket::clearReadBuffer
ClearReadBuffer(s) ==
    LET r == releaseAll(pending_read_buffers[s], free_buffers_, data_) IN
    /\ s \in sockets
    /\ pending_read_buffers[s] # << >>
    /\ pending_read_buffers' = [pending_read_buffers EXCEPT ![s] = << >>]
    /\ free_buffers_' = r.free
    /\ data_' = r.dat
    /\ last' = Used
    /\ UNCHANGED << next_id, sockets, listeners, file_descriptor, pollEntries,
                    pollout_pending, sockets_, listeners_, pending_write_buffers,
                    all_buffers_, held, events, sent, touched >>

\* Socket::getReadBuffer / Socket::getWriteBuffer on an empty queue: a new
\* buffer is put in the queue (on a non-empty queue they change nothing)
GetQueueBuffer(s, which) ==
    LET g == getWriteBuffer(all_buffers_, free_buffers_) IN
    /\ s \in sockets
    /\ g.all <= MaxBuffers
    /\ IF which = "read"
       THEN /\ pending_read_buffers[s] = << >>
            /\ pending_read_buffers' = [pending_read_buffers EXCEPT ![s] = << g.buf >>]
            /\ UNCHANGED pending_write_buffers
       ELSE /\ pending_write_buffers[s] = << >>
            /\ pending_write_buffers' = [pending_write_buffers EXCEPT ![s] = << g.buf >>]
            /\ UNCHANGED pending_read_buffers
    /\ all_buffers_' = g.all
    /\ free_buffers_' = g.free
    /\ last' = Used
    /\ UNCHANGED << next_id, sockets, listeners, file_descriptor, pollEntries,
                    pollout_pending, sockets_, listeners_, data_, held, events,
                    sent, touched >>

\* SocketManager::removeSocket (src/src/websrv/socket_manager.cpp:12-16)
removeSocket(mgr, s) == mgr \ {s}

RemoveSocket(s) ==
    /\ s \in sockets
    /\ sockets_' = removeSocket(sockets_, s)
    /\ last' = Op("removeSocket", -1, FALSE)
    /\ UNCHANGED << next_id, sockets, listeners, file_descriptor, pollEntries,
                    pollout_pending, listeners_, pending_read_buffers,
                    pending_write_buffers, data_, all_buffers_, free_buffers_,
                    held, events, sent, touched >>

\* ListenerManager::removeListener (src/src/websrv/listener_manager.cpp:15-19)
removeListener(mgr, l) == mgr \ {l}

RemoveListener(l) ==
    /\ l \in listeners
    /\ listeners_' = removeListener(listeners_, l)
    /\ last' = Op("removeListener", -1, FALSE)
    /\ UNCHANGED << next_id, sockets, listeners, file_descriptor, pollEntries,
                    pollout_pending, sockets_, pending_read_buffers,
                    pending_write_buffers, data_, all_buffers_, free_buffers_,
                    held, events, sent, touched >>

\* the sockets named by a SOCKET_CLOSED or SOCKET_ERROR event of evs
ClosedIn(evs) == { evs[k].socket : k \in { j \in DOMAIN evs :
                      evs[j].type \in {"SOCKET_CLOSED", "SOCKET_ERROR"} } }

RECURSIVE removeEach(_, _)
removeEach(mgr, S) == IF S = {} THEN mgr
                      ELSE LET s == MinOf(S) IN removeEach(removeSocket(mgr, s), S \ {s})

\* NetworkSystem::removeClosedSockets (src/src/websrv/network_system.cpp:89-96)
removeClosedSockets(mgr, evs) == removeEach(mgr, ClosedIn(evs))

RemoveClosedSockets ==
    /\ events # << >>
    /\ sockets_' = removeClosedSockets(sockets_, events)
    /\ touched' = (touched \/ ~(ClosedIn(events) \subseteq sockets))
    /\ last' = Op("removeClosedSockets", -1, ClosedIn(events) # {})
    /\ UNCHANGED << next_id, sockets, listeners, file_descriptor, pollEntries,
                    pollout_pending, listeners_, pending_read_buffers,
                    pending_write_buffers, data_, all_buffers_, free_buffers_,
                    held, events, sent >>

\* Poller::removePollable (src/src/websrv/poller.cpp:32-41); erasing a
\* socket from its pool runs Socket::~Socket, which releases the buffers of
\* the read queue and then those of the write queue.
RemovePollable(id) ==
    LET r1 == releaseAll(pending_read_buffers[id], free_buffers_, data_)
        r2 == releaseAll(pending_write_buffers[id], r1.free, r1.dat)
    IN
    /\ pollEntries' = pollEntries \ {id}
    /\ sockets' = PoolDestroy(sockets, id)
    /\ listeners' = PoolDestroy(listeners, id)
    /\ free_buffers_' = r2.free
    /\ data_' = r2.dat
    /\ pending_read_buffers' = [pending_read_buffers EXCEPT ![id] = << >>]
    /\ pending_write_buffers' = [pending_write_buffers EXCEPT ![id] = << >>]
    /\ last' = Op("removePollable", id, id \in pollEntries)
    /\ UNCHANGED << next_id, file_descriptor, pollout_pending, sockets_, listeners_,
                    all_buffers_, held, events, sent, touched >>

InitCore ==
    /\ next_id = 0
    /\ sockets = {}
    /\ listeners = {}
    /\ file_descriptor = [i \in IDs |-> "none"]
    /\ pollEntries = {}
    /\ pollout_pending = {}
    /\ sockets_ = {}
    /\ listeners_ = {}
    /\ pending_read_buffers = EmptyQueues
    /\ pending_write_buffers = EmptyQueues
    /\ data_ = [b \in BufIds |-> << >>]
    /\ all_buffers_ = 0
    /\ free_buffers_ = << >>
    /\ held = {}
    /\ events = << >>
    /\ sent = EmptyQueues
    /\ touched = FALSE
    /\ last = Op("init", -1, FALSE)

(***************************************************************************)
(* The callback layer: Poller::start's loop (src/src/websrv/poller.cpp)    *)
(* over pollables whose onEvent runs application callbacks                 *)
(* (src/socket.cpp, src/listener.cpp).                                     *)
(***************************************************************************)
VARIABLES
    phase,          \* "idle": at the top of the loop; "dispatch": in the loop over pollEntries
    pollFds,        \* Poller::pollFds after poll(2): per entry the pollable it was built from and its revents
    index,          \* the index into pollFds of the dispatch loop
    iter,           \* the key the iterator over pollEntries points to, or End
    entry_events,   \* the ids whose PollEntry::events holds POLLOUT
    write_buffer    \* per socket: Socket::write_buffer is not empty

loopVars == << phase, pollFds, index, iter, entry_events, write_buffer >>

\* pollEntries.end()
End == -1

\* the successor of key i in the map with keys S
NextKey(S, i) == IF { j \in S : j > i } = {} THEN End ELSE MinOf({ j \in S : j > i })

\* Poller::updatePollEvents: a pending POLLOUT request of a registered
\* pollable goes into its entry and is not pending any more
updatePollEvents(pending, entries, evs) ==
    [pending |-> pending \ entries, evs |-> evs \cup (pending \cap entries)]

\* what poll(2) can report for an entry: a subset of the requested events
Revents(id, evs) ==
    { [id |-> id, in |-> i, out |-> o] :
        i \in BOOLEAN, o \in IF id \in evs THEN BOOLEAN ELSE { FALSE } }

RECURSIVE BuildPollFds(_, _)
\* the loop that rebuilds pollFds from pollEntries, and poll(2) filling in
\* the revents
BuildPollFds(S, evs) ==
    IF S = {} THEN { << >> }
    ELSE LET i == MinOf(S)
         IN  { << r >> \o rest : r \in Revents(i, evs), rest \in BuildPollFds(S \ {i}, evs) }

\* Poller::createSocket / Poller::createListener called by the application
PollerCreate(kind) ==
    LET a == allocate(next_id) IN
    /\ phase = "idle"
    /\ next_id < MaxPollables
    /\ next_id' = a.next
    /\ IF kind = "socket"
       THEN sockets' = PoolCreate(sockets, a.id) /\ UNCHANGED listeners
       ELSE listeners' = PoolCreate(listeners, a.id) /\ UNCHANGED sockets
    /\ pollEntries' = addPollable(pollEntries, a.id)
    /\ file_descriptor' = [file_descriptor EXCEPT ![a.id] = "open"]
    /\ UNCHANGED << pollout_pending, sockets_, listeners_, pending_read_buffers,
                    pending_write_buffers, data_, all_buffers_, free_buffers_,
                    held, events, sent, touched, last >>
    /\ UNCHANGED loopVars

\* Socket::write of the callback layer (src/socket.cpp:76-90): the bytes go
\* to write_buffer, and POLLOUT is asked for when it was empty
OldWrite(s) ==
    /\ phase = "idle"
    /\ s \in sockets
    /\ write_buffer' = [write_buffer EXCEPT ![s] = TRUE]
    /\ pollout_pending' = IF write_buffer[s] THEN pollout_pending
                          ELSE enablePollout(pollout_pending, s)
    /\ UNCHANGED << next_id, sockets, listeners, file_descriptor, pollEntries,
                    sockets_, listeners_, pending_read_buffers,
                    pending_write_buffers, data_, all_buffers_, free_buffers_,
                    held, events, sent, touched, last >>
    /\ UNCHANGED << phase, pollFds, index, iter, entry_events >>

\* Poller::removePollable called outside the dispatch loop (before start, or
\* from a timer callback at the top of the loop)
RemoveIdle(id) ==
    /\ phase = "idle"
    /\ RemovePollable(id)
    /\ UNCHANGED loopVars

\* one iteration of the while loop of Poller::start up to the dispatch loop:
\* updatePollEvents, the rebuild of pollFds, poll(2); with no revents at all
\* the loop starts over
LoopPoll ==
    LET u == updatePollEvents(pollout_pending, pollEntries, entry_events) IN
    /\ phase = "idle"
    /\ pollEntries # {}
    /\ pollout_pending' = u.pending
    /\ entry_events' = u.evs
    /\ \E fds \in BuildPollFds(pollEntries, u.evs) :
          /\ pollFds' = fds
          /\ IF \E k \in DOMAIN fds : fds[k].in \/ fds[k].out
             THEN /\ phase' = "dispatch"
                  /\ index' = 1
                  /\ iter' = MinOf(pollEntries)
             ELSE UNCHANGED << phase, index, iter >>
    /\ UNCHANGED write_buffer
    /\ UNCHANGED << next_id, sockets, listeners, file_descriptor, pollEntries,
                    sockets_, listeners_, pending_read_buffers,
                    pending_write_buffers, data_, all_buffers_, free_buffers_,
                    held, events, sent, touched, last >>

\* what an application callback (onData, onAccept) does to the registry:
\* nothing, or poller->removePollable(j)
Callbacks == { [remove |-> FALSE, id |-> End] } \cup { [remove |-> TRUE, id |-> j] : j \in IDs }

\* one pass of the body of the dispatch loop (poller.cpp:153-188) for the
\* entry the iterator points to.  got: ::read / ::accept delivered something,
\* so that the application's callback cb runs inside onEvent.
Dispatch(got, cb) ==
    LET rev      == pollFds[index]
        fired    == rev.in \/ rev.out
        isSock   == iter \in sockets
        accepted == fired /\ ~isSock /\ got /\ next_id < MaxPollables
        a        == allocate(next_id)
        called   == fired /\ got /\ (IF isSock THEN rev.in ELSE accepted)
        removed  == IF called /\ cb.remove THEN { cb.id } ELSE {}
        \* the registry after onEvent
        socks    == (IF accepted THEN PoolCreate(sockets, a.id) ELSE sockets) \ removed
        lists    == listeners \ removed
        entries  == (IF accepted THEN addPollable(pollEntries, a.id) ELSE pollEntries) \ removed
        gone     == iter \in removed
        \* Socket::onEvent, POLLOUT part: a successful write clears write_buffer
        wrote    == fired /\ isSock /\ rev.out /\ write_buffer[iter] /\ ~gone
        wb       == [i \in IDs |-> IF i \in removed THEN FALSE
                                   ELSE IF i = iter /\ wrote THEN FALSE
                                   ELSE write_buffer[i]]
        \* the loop's POLLOUT check after onEvent
        evs      == IF fired /\ rev.out /\ isSock /\ ~gone /\ ~wb[iter]
                    THEN entry_events \ {iter} ELSE entry_events
    IN
    /\ phase = "dispatch"
    /\ iter # End /\ index <= Len(pollFds)
    /\ ~fired => (~got /\ ~cb.remove)
    /\ ~called => ~cb.remove
    /\ next_id' = IF accepted THEN a.next ELSE next_id
    /\ sockets' = socks
    /\ listeners' = lists
    /\ pollEntries' = entries
    /\ file_descriptor' = IF accepted THEN [file_descriptor EXCEPT ![a.id] = "open"]
                          ELSE file_descriptor
    /\ write_buffer' = wb
    /\ entry_events' = evs \ removed
    /\ index' = index + 1
    \* after onEvent the loop reads entry.pollable->type and advances the
    \* iterator; with the entry erased and the pollable destroyed both are
    \* reads of freed memory, and the iterator may then point anywhere
    /\ touched' = (touched \/ (fired /\ gone))
    /\ IF fired /\ gone
       THEN \E n \in entries \cup { End } :
               /\ iter' = n
               /\ phase' = IF n = End \/ index + 1 > Len(pollFds) THEN "idle" ELSE "dispatch"
       ELSE LET n == NextKey(entries, iter) IN
               /\ iter' = n
               /\ phase' = IF n = End \/ index + 1 > Len(pollFds) THEN "idle" ELSE "dispatch"
    /\ UNCHANGED << pollFds, pollout_pending, sockets_, listeners_,
                    pending_read_buffers, pending_write_buffers, data_,
                    all_buffers_, free_buffers_, held, events, sent, last >>

InitLoop ==
    /\ phase = "idle"
    /\ pollFds = << >>
    /\ index = 0
    /\ iter = End
    /\ entry_events = {}
    /\ write_buffer = [i \in IDs |-> FALSE]

(***************************************************************************)
(* The timers of the reactor (Poller::TimerEntry and the four timer        *)
(* methods declared in src/include/websrv/poller.hpp).  The bodies are not *)
(* part of the sources; they follow sections 4.4 and 4.5 of the            *)
(* specification.                                                          *)
(***************************************************************************)
MaxTimers == 2
MaxTime == 3
MaxDelay == 2

VARIABLES
    timers,         \* Poller::timers
    next_timer_id,  \* Poller::next_timer_id
    now             \* SteadyClock::now(), in milliseconds

timerVars == << timers, next_timer_id, now >>

TimerIDs == 1 .. MaxTimers

\* no entry in Poller::timers
NoTimer == [present |-> FALSE, expiry |-> 0, interval |-> 0, repeat |-> FALSE,
            expired |-> FALSE]

\* Poller::createTimer: expiry = now + ms, interval = ms for a repeating
\* timer and 0 for a one-shot one, expired = false
createTimer(tm, id, t, ms, repeat) ==
    [tm EXCEPT ![id] = [present |-> TRUE, expiry |-> t + ms,
                        interval |-> IF repeat THEN ms ELSE 0,
                        repeat |-> repeat, expired |-> FALSE]]

\* Poller::isTimerExpired: false for an unknown id
isTimerExpired(tm, id) == id \in DOMAIN tm /\ tm[id].present /\ tm[id].expired

\* a reset that looks the timer up with timers[id], which makes an entry
\* for an id that has none
resetTimerInsert(tm, id, t) ==
    IF id \notin DOMAIN tm THEN tm
    ELSE [tm EXCEPT ![id].present = TRUE,
                    ![id].expired = FALSE,
                    ![id].expiry = IF tm[id].repeat THEN t + tm[id].interval ELSE @]

\* a reset that schedules a repeating timer from its previous expiry
resetTimerCatchUp(tm, id, t) ==
    IF id \notin DOMAIN tm \/ ~tm[id].present THEN tm
    ELSE [tm EXCEPT ![id].expired = FALSE,
                    ![id].expiry = IF tm[id].repeat THEN @ + tm[id].interval ELSE @]

\* Poller::resetTimer: clears the flag; a repeating timer expires next at
\* now + interval; nothing for an unknown id
resetTimer(tm, id, t) ==
    IF id \notin DOMAIN tm \/ ~tm[id].present THEN tm
    ELSE [tm EXCEPT ![id].expired = FALSE,
                    ![id].expiry = IF tm[id].repeat THEN t + tm[id].interval ELSE @]

\* Poller::destroyTimer: timers.erase(id)
destroyTimer(tm, id) ==
    IF id \notin DOMAIN tm THEN tm ELSE [tm EXCEPT ![id] = NoTimer]

\* a scan that recomputes the flag of every timer from its expiry
scanTimersEdge(tm, t) ==
    [id \in DOMAIN tm |->
        IF tm[id].present /\ tm[id].expiry <= t
        THEN [tm[id] EXCEPT !.expired = TRUE,
                            !.expiry = IF tm[id].repeat THEN t + tm[id].interval ELSE @]
        ELSE [tm[id] EXCEPT !.expired = FALSE]]

\* a scan that takes a timer for expired only after its expiry
scanTimersStrict(tm, t) ==
    [id \in DOMAIN tm |->
        IF tm[id].present /\ ~tm[id].expired /\ tm[id].expiry < t
        THEN [tm[id] EXCEPT !.expired = TRUE,
                            !.expiry = IF tm[id].repeat THEN t + tm[id].interval ELSE @]
        ELSE tm[id]]

\* the timer scan of Poller::poll: a timer that is not expired and whose
\* expiry has passed becomes expired; a repeating one is re-armed to
\* now + interval
scanTimers(tm, t) ==
    [id \in DOMAIN tm |->
        IF tm[id].present /\ ~tm[id].expired /\ tm[id].expiry <= t
        THEN [tm[id] EXCEPT !.expired = TRUE,
                            !.expiry = IF tm[id].repeat THEN t + tm[id].interval ELSE @]
        ELSE tm[id]]

coreButLast == << next_id, sockets, listeners, file_descriptor, pollEntries,
                  pollout_pending, sockets_, listeners_, pending_read_buffers,
                  pending_write_buffers, data_, all_buffers_, free_buffers_, held,
                  events, sent, touched >>

\* NetworkSystem::createTimer
CreateTimer(ms, repeat) ==
    /\ next_timer_id <= MaxTimers
    /\ timers' = createTimer(timers, next_timer_id, now, ms, repeat)
    /\ next_timer_id' = next_timer_id + 1
    /\ last' = Op("createTimer", next_timer_id, repeat)
    /\ UNCHANGED now

\* NetworkSystem::resetTimer
ResetTimer(id) ==
    /\ timers' = resetTimer(timers, id, now)
    /\ last' = Op("resetTimer", id, isTimerExpired(timers, id))
    /\ UNCHANGED << next_timer_id, now >>

\* NetworkSystem::destroyTimer
DestroyTimer(id) ==
    /\ timers' = destroyTimer(timers, id)
    /\ last' = Op("destroyTimer", id, isTimerExpired(timers, id))
    /\ UNCHANGED << next_timer_id, now >>

\* NetworkSystem::poll with nothing registered but timers, dt milliseconds
\* after the previous call on the reactor
PollTimers(dt) ==
    /\ now + dt <= MaxTime
    /\ now' = now + dt
    /\ timers' = scanTimers(timers, now + dt)
    /\ last' = Op("pollTimers", -1, \E id \in TimerIDs : isTimerExpired(timers, id))
    /\ UNCHANGED next_timer_id

\* time passes between two calls on the reactor
Elapse(dt) ==
    /\ now + dt <= MaxTime
    /\ now' = now + dt
    /\ last' = Op("elapse", -1, FALSE)
    /\ UNCHANGED << timers, next_timer_id >>

InitTimers ==
    /\ timers = [id \in TimerIDs |-> NoTimer]
    /\ next_timer_id = 1
    /\ now = 0

(***************************************************************************)
(* HttpServer (src/http_server.cpp) behind a callback-layer Socket         *)
(* (src/socket.cpp).  Request text is a sequence of tokens: a word, "SP"   *)
(* (a blank), "CRLF" (the two bytes \r\n), a header line's text, or a      *)
(* body token; requests reach the server cut at token boundaries.          *)
(***************************************************************************)
MaxBody == 2
MaxSplit == 3

VARIABLES
    http_request,   \* the request the peer is sending (NoRequest: no connection)
    incoming,       \* its text not yet received by the server
    read_buffer,    \* Socket::read_buffer of the connection
    handled,        \* the requests the route handlers were invoked with
    responses       \* the status codes of the responses written to the socket

httpVars == << http_request, incoming, read_buffer, handled, responses >>

HttpMethods == { "GET", "POST", "PUT", "DELETE", "HEAD", "OPTIONS" }
NoRequest == [method |-> "", path |-> "", body |-> << >>]

\* the routes the application registered with get() and post()
routes == { [method |-> "GET", path |-> "/a"], [method |-> "POST", path |-> "/a"] }

Bodies == UNION { [1 .. n -> { "b1", "b2" }] : n \in 0 .. MaxBody }

HttpRequests == [method : { "GET", "POST" }, path : { "/a", "/b" }, body : Bodies]

\* HttpClient::buildRequest: the text of a request on the wire
buildRequest(req) ==
    << req.method, "SP", req.path, "SP", "HTTP/1.1", "CRLF",
       "Host: h:80", "CRLF", "Connection: close", "CRLF" >>
    \o (IF req.body # << >> THEN << "Content-Length: n", "CRLF" >> ELSE << >>)
    \o << "CRLF" >>
    \o req.body

FirstCRLF(d) ==
    IF \E i \in 1 .. Len(d) : d[i] = "CRLF"
    THEN MinOf({ i \in 1 .. Len(d) : d[i] = "CRLF" })
    ELSE 0

RECURSIVE getlines(_)
\* the lines successive std::getline calls return: toks is the line's text
\* without its line end, cr tells that the line ends in \r (it was cut at
\* a CRLF); an empty rest yields no further line
getlines(d) ==
    IF d = << >> THEN << >>
    ELSE LET i == FirstCRLF(d)
         IN IF i = 0 THEN << [toks |-> d, cr |-> FALSE] >>
            ELSE << [toks |-> SubSeq(d, 1, i - 1), cr |-> TRUE] >>
                 \o getlines(SubSeq(d, i + 1, Len(d)))

\* operator>> on the request line: the blank-separated words
Words(toks) == SelectSeq(toks, LAMBDA t : t # "SP")

\* the number of header lines: the lines before the first empty one
HeaderCount(ls) ==
    IF \E i \in 1 .. Len(ls) : ls[i].toks = << >>
    THEN MinOf({ i \in 1 .. Len(ls) : ls[i].toks = << >> }) - 1
    ELSE Len(ls)

RECURSIVE joinBody(_)
\* body += line + "\n" for every remaining line
joinBody(ls) ==
    IF ls = << >> THEN << >>
    ELSE Head(ls).toks \o (IF Head(ls).cr THEN << "CR" >> ELSE << >>) \o << "LF" >>
         \o joinBody(Tail(ls))

\* HttpServer::parseRequest on a default-constructed HttpRequest
parseRequest(data) ==
    LET ls   == getlines(data)
        w    == IF ls = << >> THEN << >> ELSE Words(ls[1].toks)
        ok   == Len(w) >= 3
        rest == IF ls = << >> THEN << >> ELSE Tail(ls)
        h    == HeaderCount(rest)
        body == joinBody(SubSeq(rest, h + 2, Len(rest)))
    IN [method |-> IF ok /\ w[1] \in HttpMethods THEN w[1] ELSE "GET",
        path   |-> IF ok THEN w[2] ELSE "/",
        body   |-> IF body = << >> THEN << >> ELSE Front(body)]

findRoute(path, method) == [method |-> method, path |-> path]

\* HttpServer::handleRequest on connection state c = [handled, responses]
handleRequest(c, data) ==
    LET request == parseRequest(data)
    IN IF findRoute(request.path, request.method) \in routes
       THEN [handled |-> Append(c.handled, request), responses |-> Append(c.responses, 200)]
       ELSE [handled |-> c.handled, responses |-> Append(c.responses, 404)]

\* a peer connects and will send req; handleConnection installs onData
HttpConnect(req) ==
    /\ http_request = NoRequest
    /\ http_request' = req
    /\ incoming' = buildRequest(req)
    /\ read_buffer' = << >>
    /\ handled' = << >>
    /\ responses' = << >>

\* one tick in which the next k tokens arrive: Socket::onEvent appends
\* them to read_buffer and calls onData with read_buffer, which runs
\* handleRequest (no WebSocket server is attached)
HttpData(k) ==
    /\ incoming # << >>
    /\ k \in 1 .. Len(incoming)
    /\ Len(responses) + 1 < MaxSplit \/ k = Len(incoming)
    /\ LET buf == read_buffer \o SubSeq(incoming, 1, k)
           c   == handleRequest([handled |-> handled, responses |-> responses], buf)
       IN /\ read_buffer' = buf
          /\ handled' = c.handled
          /\ responses' = c.responses
    /\ incoming' = SubSeq(incoming, k + 1, Len(incoming))
    /\ UNCHANGED http_request

\* the connection goes away after the request was sent
HttpClose ==
    /\ http_request # NoRequest
    /\ incoming = << >>
    /\ http_request' = NoRequest
    /\ read_buffer' = << >>
    /\ handled' = << >>
    /\ responses' = << >>
    /\ UNCHANGED incoming

InitHttp ==
    /\ http_request = NoRequest
    /\ incoming = << >>
    /\ read_buffer = << >>
    /\ handled = << >>
    /\ responses = << >>

(***************************************************************************)
(* WebSocket frames (src/websocket_server.cpp, src/websocket_client.cpp).  *)
(* A frame is a sequence of bytes 0 .. 255.                                *)
(***************************************************************************)
CONTINUATION == 0
TEXT == 1
BINARY == 2
CLOSE == 8
PING == 9
PONG == 10
Opcodes == { CONTINUATION, TEXT, BINARY, CLOSE, PING, PONG }

FinBit == 128
MaskBit == 128
Len16Code == 126
Len64Code == 127
Len16Limit == 126
Len64Limit == 65536

Bit(x, k) == (x \div (2 ^ k)) % 2
Xor8(a, b) ==
      ((Bit(a, 0) + Bit(b, 0)) % 2)
    + ((Bit(a, 1) + Bit(b, 1)) % 2) * 2
    + ((Bit(a, 2) + Bit(b, 2)) % 2) * 4
    + ((Bit(a, 3) + Bit(b, 3)) % 2) * 8
    + ((Bit(a, 4) + Bit(b, 4)) % 2) * 16
    + ((Bit(a, 5) + Bit(b, 5)) % 2) * 32
    + ((Bit(a, 6) + Bit(b, 6)) % 2) * 64
    + ((Bit(a, 7) + Bit(b, 7)) % 2) * 128
XorTable == [a \in 0 .. 255 |-> [b \in 0 .. 255 |-> Xor8(a, b)]]
\* a ^ b on bytes
Xor(a, b) == XorTable[a][b]

\* n >> k for a 64-bit size n below 2^31
Shr(n, k) == IF k >= 31 THEN 0 ELSE n \div (2 ^ k)

\* the second byte of a frame and the extended length that follows it,
\* as buildFrame pushes them; second_byte is 0 or MaskBit
payloadLengthSwapped(second_byte, n) ==
    IF n < Len16Limit THEN << second_byte + n >>
    ELSE IF n < Len64Limit
         THEN << second_byte + Len16Code, n % 256, Shr(n, 8) % 256 >>
         ELSE << second_byte + Len64Code >> \o [j \in 1 .. 8 |-> Shr(n, (8 - j) * 8) % 256]

payloadLength(second_byte, n) ==
    IF n < Len16Limit THEN << second_byte + n >>
    ELSE IF n < Len64Limit
         THEN << second_byte + Len16Code, Shr(n, 8) % 256, n % 256 >>
         ELSE << second_byte + Len64Code >> \o [j \in 1 .. 8 |-> Shr(n, (8 - j) * 8) % 256]

\* (masking_key >> ((3 - (i % 4)) * 8)) & 0xFF, the masking key being kept
\* as its four base-256 digits, most significant first
maskingKeyByte(masking_key, i) == masking_key[4 - ((3 - (i % 4)) * 8) \div 8]

\* WebSocketConnection::buildFrame: FIN set, not masked
buildFrame(data, opcode) ==
    << FinBit + opcode >> \o payloadLength(0, Len(data)) \o data

\* WebSocketClient::buildFrame: FIN set, masked with the four key bytes the
\* random generator gave
clientBuildFrame(data, opcode, key) ==
    << FinBit + opcode >> \o payloadLength(MaskBit, Len(data)) \o key
    \o [i \in 1 .. Len(data) |-> Xor(data[i], maskingKeyByte(key, i - 1))]

NoFrame == [fin |-> FALSE, opcode |-> -1, masked |-> FALSE, payload |-> << >>]

RECURSIVE BigEndian(_)
\* payload_length = (payload_length << 8) | byte, over the bytes of s
BigEndian(s) == IF s = << >> THEN 0 ELSE BigEndian(Front(s)) * 256 + Last(s)

\* the frame parseFrame decodes from data before it acts on the opcode;
\* NoFrame when it returns early
decodeFrame(data) ==
    IF Len(data) < 2 THEN NoFrame
    ELSE LET fin         == data[1] >= FinBit
             opcode      == data[1] % 16
             masked      == data[2] >= MaskBit
             payload_len == data[2] % 128
             ext         == IF payload_len = Len16Code THEN 2
                            ELSE IF payload_len = Len64Code THEN 8 ELSE 0
             payload_length ==
                 IF ext = 0 THEN payload_len ELSE BigEndian(SubSeq(data, 3, 2 + ext))
             masking_key == SubSeq(data, 3 + ext, 6 + ext)
             offset      == 2 + ext + (IF masked THEN 4 ELSE 0)
         IN IF Len(data) < 2 + ext THEN NoFrame
            ELSE IF masked /\ Len(data) < 2 + ext + 4 THEN NoFrame
            ELSE IF Len(data) < offset + payload_length THEN NoFrame
            ELSE [fin |-> fin, opcode |-> opcode, masked |-> masked,
                  payload |-> [i \in 1 .. payload_length |->
                      IF masked THEN Xor(data[offset + i], maskingKeyByte(masking_key, i - 1))
                      ELSE data[offset + i]]]

\* the decoding part of WebSocketConnection::parseFrame
parseFrame(data) == decodeFrame(data)

\* the decoding part of WebSocketClient::parseFrame, the same text
clientParseFrame(data) == decodeFrame(data)

\* ---- one frame sent from one side to the other --------------------------
VARIABLES
    wire,        \* the bytes of the frame in flight
    direction,   \* "idle", "toClient", "toServer", "atClient", "atServer"
    original,    \* (opcode, fin, payload) the sender built the frame from
    frame        \* the frame the receiver decoded

frameVars == << wire, direction, original, frame >>

Payload(n, seed) == [i \in 1 .. n |-> (i * 7 + seed) % 256]

\* payloads of every length encoding; the long ones travel in data frames
\* only
LongPayloads == { Payload(n, 3) : n \in { Len64Limit - 1, Len64Limit } }
Payloads(opcode) ==
    { Payload(n, seed) : n \in { 0, 1, 5, Len16Limit - 1, Len16Limit, 300 }, seed \in { 0, 250 } }
    \cup (IF opcode \in { TEXT, BINARY } THEN LongPayloads ELSE { })

\* the masking keys the random generator may give (a sample; one of them
\* for the long payloads)
PeerKey == << 200, 52, 86, 1 >>
Keys(data) ==
    IF data \in LongPayloads THEN { PeerKey }
    ELSE { << 0, 0, 0, 0 >>, << 255, 255, 255, 255 >>, PeerKey }

\* WebSocketConnection::sendText / sendBinary / close / the PONG reply
ServerBuild(opcode, data) ==
    /\ direction = "idle"
    /\ wire' = buildFrame(data, opcode)
    /\ original' = [opcode |-> opcode, fin |-> TRUE, payload |-> data]
    /\ direction' = "toClient"
    /\ UNCHANGED frame

ClientBuild(opcode, data, key) ==
    /\ direction = "idle"
    /\ wire' = clientBuildFrame(data, opcode, key)
    /\ original' = [opcode |-> opcode, fin |-> TRUE, payload |-> data]
    /\ direction' = "toServer"
    /\ UNCHANGED frame

ClientParse ==
    /\ direction = "toClient"
    /\ frame' = clientParseFrame(wire)
    /\ direction' = "atClient"
    /\ UNCHANGED << wire, original >>

ServerParse ==
    /\ direction = "toServer"
    /\ frame' = parseFrame(wire)
    /\ direction' = "atServer"
    /\ UNCHANGED << wire, original >>

\* the receiver is done with the frame
FrameDone ==
    /\ direction \in { "atClient", "atServer" }
    /\ wire' = << >>
    /\ direction' = "idle"
    /\ original' = NoFrame
    /\ frame' = NoFrame

InitFrame ==
    /\ wire = << >>
    /\ direction = "idle"
    /\ original = NoFrame
    /\ frame = NoFrame

\* ---- a server connection receiving a fragmented message -----------------
MaxFragments == 3

VARIABLES
    ws_status,       \* WebSocketConnection::status
    ws_script,       \* the frames the peer has still to send
    ws_message,      \* the text the peer is sending, whole
    ws_pings,        \* the number of PING frames the server has received
    ws_read_buffer,  \* Socket::read_buffer of the connection
    onMessage,       \* the texts given to the onMessage callback
    written          \* the frames the connection wrote to its socket

wsVars == << ws_status, ws_script, ws_message, ws_pings, ws_read_buffer, onMessage, written >>

FragmentPayloads == { << 104 >>, << 105, 33 >> }
PingPayload == << 112 >>

RECURSIVE Concat(_)
Concat(ss) == IF ss = << >> THEN << >> ELSE Head(ss) \o Concat(Tail(ss))

\* a text of Len(ps) fragments with a PING after fragment j (j = 0: none)
Script(ps, j) ==
    LET n == Len(ps)
        frag(i) == [fin |-> i = n, opcode |-> IF i = 1 THEN TEXT ELSE CONTINUATION,
                    payload |-> ps[i]]
    IN [k \in 1 .. (n + IF j > 0 THEN 1 ELSE 0) |->
          IF j > 0 /\ k = j + 1 THEN [fin |-> TRUE, opcode |-> PING, payload |-> PingPayload]
          ELSE frag(IF j > 0 /\ k > j + 1 THEN k - 1 ELSE k)]

Fragmentations == UNION { [1 .. n -> FragmentPayloads] : n \in 1 .. MaxFragments }

\* the bytes of frame f as a client puts them on the wire: a masked frame
\* whose first byte carries f's FIN bit
PeerFrame(f) ==
    [clientBuildFrame(f.payload, f.opcode, PeerKey) EXCEPT
        ![1] = (IF f.fin THEN FinBit ELSE 0) + f.opcode]

\* WebSocketConnection::close(code, reason) on connection state c, payload
\* being the two bytes of the code followed by the reason: nothing when
\* CLOSED already; else status CLOSING, the Close frame is written, status
\* CLOSED, onClose
close(c, payload) ==
    IF c.status = "CLOSED" THEN c
    ELSE [c EXCEPT !.status = "CLOSED",
                   !.written = Append(@, buildFrame(payload, CLOSE))]

\* what WebSocketConnection::parseFrame does with the frame it decoded,
\* on connection state c = [onMessage, written, status]; a BINARY frame
\* goes to onBinary, which is not recorded
dispatchFrame(c, f) ==
    IF f = NoFrame THEN c
    ELSE IF f.opcode = TEXT THEN [c EXCEPT !.onMessage = Append(@, f.payload)]
    ELSE IF f.opcode = CLOSE
         THEN close(c, IF Len(f.payload) >= 2 THEN f.payload ELSE << 3, 232 >>)
    ELSE IF f.opcode = PING THEN [c EXCEPT !.written = Append(@, buildFrame(f.payload, PONG))]
    ELSE c

\* the handshake is done and the peer starts to send the text ps
WsOpen(ps, j) ==
    /\ ws_status = "CONNECTING"
    /\ ws_status' = "OPEN"
    /\ ws_script' = Script(ps, j)
    /\ ws_message' = Concat(ps)
    /\ ws_pings' = 0
    /\ ws_read_buffer' = << >>
    /\ onMessage' = << >>
    /\ written' = << >>

\* one tick in which the peer's next frame arrives: Socket::onEvent appends
\* its bytes to read_buffer and calls onData with read_buffer, which runs
\* handleSocketData and parseFrame
WsData ==
    /\ ws_status = "OPEN"
    /\ ws_script # << >>
    /\ LET buf == ws_read_buffer \o PeerFrame(Head(ws_script))
           c   == dispatchFrame([onMessage |-> onMessage, written |-> written,
                                 status |-> ws_status], parseFrame(buf))
       IN /\ ws_read_buffer' = buf
          /\ onMessage' = c.onMessage
          /\ written' = c.written
          /\ ws_status' = c.status
    /\ ws_pings' = ws_pings + (IF Head(ws_script).opcode = PING THEN 1 ELSE 0)
    /\ ws_script' = Tail(ws_script)
    /\ UNCHANGED ws_message

\* the connection goes away
WsClose ==
    /\ ws_status # "CONNECTING"
    /\ ws_script = << >>
    /\ ws_status' = "CONNECTING"
    /\ ws_message' = << >>
    /\ ws_pings' = 0
    /\ ws_read_buffer' = << >>
    /\ onMessage' = << >>
    /\ written' = << >>
    /\ UNCHANGED ws_script

InitWs ==
    /\ ws_status = "CONNECTING"
    /\ ws_script = << >>
    /\ ws_message = << >>
    /\ ws_pings = 0
    /\ ws_read_buffer = << >>
    /\ onMessage = << >>
    /\ written = << >>

(***************************************************************************)
(* A WebSocket connection that reads a stream of frames: the peer's frames *)
(* reach the socket as a byte stream that the reads cut anywhere.          *)
(* src/socket.cpp (onEvent), src/websocket_server.cpp (handleConnection,   *)
(* handleSocketData, parseFrame, close).                                   *)
(***************************************************************************)
MaxFrames == 2

VARIABLES
    peer_frames,       \* the frames the peer sent on this connection
    peer_stream,       \* their bytes that the socket has still to read
    conn_read_buffer,  \* Socket::read_buffer of the connection
    conn_status,       \* WebSocketConnection::status
    conn_dispatched,   \* the frames parseFrame decoded and acted on, in order
    conn_onMessage,    \* the texts given to the onMessage callback
    conn_written,      \* the frames the connection wrote to its socket
    socket_open        \* the connection's socket has an open descriptor

connVars == << peer_frames, peer_stream, conn_read_buffer, conn_status,
               conn_dispatched, conn_onMessage, conn_written, socket_open >>

\* close payloads: none, status code 1001, status code 1001 and a reason
ClosePayloads == { << >>, << 3, 233 >>, << 3, 233, 98 >> }

\* the RSV1 bit of the first byte of a frame
Rsv1Bit == 64

\* a frame of the peer: rsv is what the RSV bits add to the first byte
PeerSends(fin, rsv, opcode, masked, payload) ==
    [fin |-> fin, rsv |-> rsv, opcode |-> opcode, masked |-> masked, payload |-> payload]

\* frames that keep the rules of the protocol
StreamFrames ==
    { PeerSends(TRUE, 0, TEXT, TRUE, p) : p \in FragmentPayloads }
        \cup { PeerSends(TRUE, 0, CLOSE, TRUE, p) : p \in ClosePayloads }
        \cup { PeerSends(TRUE, 0, PING, TRUE, PingPayload) }

\* the rules of the protocol a frame of a client can break: a reserved bit,
\* an unknown opcode, a control frame that is a fragment or longer than 125
\* bytes, no mask
IsViolation(f) ==
    \/ f.rsv # 0
    \/ f.opcode \notin Opcodes
    \/ f.opcode \in { CLOSE, PING, PONG } /\ (~f.fin \/ Len(f.payload) >= Len16Limit)
    \/ ~f.masked

\* frames that break them, one for each rule
ViolatingFrames ==
    { PeerSends(TRUE, Rsv1Bit, TEXT, TRUE, << 104 >>),
      PeerSends(TRUE, 0, 3, TRUE, << 104 >>),
      PeerSends(FALSE, 0, PING, TRUE, PingPayload),
      PeerSends(TRUE, 0, PING, TRUE, Payload(Len16Limit, 0)),
      PeerSends(TRUE, 0, TEXT, FALSE, << 104 >>) }

\* what the peer sends: up to MaxFrames frames that keep the rules, or one
\* frame that breaks one
FrameStreams ==
    UNION { [1 .. n -> StreamFrames] : n \in 1 .. MaxFrames }
        \cup { << f >> : f \in ViolatingFrames }

\* the bytes of frame f on the wire
StreamWire(f) ==
    LET w == IF f.masked THEN PeerFrame(f)
             ELSE [buildFrame(f.payload, f.opcode) EXCEPT
                      ![1] = (IF f.fin THEN FinBit ELSE 0) + f.opcode]
    IN [w EXCEPT ![1] = @ + f.rsv]

\* the bytes of the frames fs on the wire, one after the other
RECURSIVE WireBytes(_)
WireBytes(fs) == IF fs = << >> THEN << >> ELSE StreamWire(Head(fs)) \o WireBytes(Tail(fs))

\* the handshake is done and the peer sends the frames fs
StreamOpen(fs) ==
    /\ conn_status = "CONNECTING"
    /\ conn_status' = "OPEN"
    /\ peer_frames' = fs
    /\ peer_stream' = WireBytes(fs)
    /\ conn_read_buffer' = << >>
    /\ conn_dispatched' = << >>
    /\ conn_onMessage' = << >>
    /\ conn_written' = << >>
    /\ socket_open' = TRUE

\* "HTTP/1.1 400 Bad Request\r\n\r\n"
BadRequest ==
    << 72, 84, 84, 80, 47, 49, 46, 49, 32, 52, 48, 48, 32, 66, 97, 100, 32,
       82, 101, 113, 117, 101, 115, 116, 13, 10, 13, 10 >>

\* one tick in which the socket reads the next k bytes of the stream:
\* Socket::onEvent appends them to read_buffer and calls onData with
\* read_buffer; the server's onData gives it to handleSocketData while the
\* connection is OPEN, and parseFrame decodes the frame at the start of the
\* data and acts on it.  While the connection is not OPEN, onData gives the
\* data to handleHttpRequest: the data begins with the first byte of a
\* frame, so its method is not GET and the answer is 400 Bad Request
\* whether or not it parses.  Nothing in onEvent, onData, parseFrame or
\* close closes the socket.
StreamData(k) ==
    /\ conn_status # "CONNECTING"
    /\ k \in 1 .. Len(peer_stream)
    /\ LET buf == conn_read_buffer \o SubSeq(peer_stream, 1, k)
           f   == IF conn_status = "OPEN" THEN parseFrame(buf) ELSE NoFrame
           c0  == [onMessage |-> conn_onMessage, written |-> conn_written,
                   status |-> conn_status]
           c   == IF conn_status = "OPEN" THEN dispatchFrame(c0, f)
                  ELSE [c0 EXCEPT !.written = Append(@, BadRequest)]
       IN /\ conn_read_buffer' = buf
          /\ conn_dispatched' = IF f = NoFrame THEN conn_dispatched
                                ELSE Append(conn_dispatched,
                                            [opcode |-> f.opcode, payload |-> f.payload])
          /\ conn_onMessage' = c.onMessage
          /\ conn_written' = c.written
          /\ conn_status' = c.status
    /\ peer_stream' = SubSeq(peer_stream, k + 1, Len(peer_stream))
    /\ UNCHANGED << peer_frames, socket_open >>

\* the application calls WebSocketConnection::close(code, reason) on the
\* open connection
AppClose(payload) ==
    /\ conn_status = "OPEN"
    /\ LET c == close([onMessage |-> conn_onMessage, written |-> conn_written,
                       status |-> conn_status], payload)
       IN /\ conn_written' = c.written
          /\ conn_status' = c.status
    /\ UNCHANGED << peer_frames, peer_stream, conn_read_buffer, conn_dispatched,
                    conn_onMessage, socket_open >>

\* the application drops the connection and its socket
StreamClose ==
    /\ conn_status # "CONNECTING"
    /\ conn_status' = "CONNECTING"
    /\ peer_frames' = << >>
    /\ peer_stream' = << >>
    /\ conn_read_buffer' = << >>
    /\ conn_dispatched' = << >>
    /\ conn_onMessage' = << >>
    /\ conn_written' = << >>
    /\ socket_open' = FALSE

InitConn ==
    /\ conn_status = "CONNECTING"
    /\ peer_frames = << >>
    /\ peer_stream = << >>
    /\ conn_read_buffer = << >>
    /\ conn_dispatched = << >>
    /\ conn_onMessage = << >>
    /\ conn_written = << >>
    /\ socket_open = FALSE

(***************************************************************************)
(* The opening handshake of the WebSocket server: the request that reaches *)
(* a connection that is CONNECTING.  Texts are sequences of character      *)
(* codes.  src/websocket_server.cpp (handleHttpRequest, parseHttpRequest,  *)
(* isWebSocketUpgrade, upgradeToWebSocket).                                *)
(***************************************************************************)
VARIABLES
    up_status,    \* WebSocketConnection::status
    up_request,   \* the request the socket has read
    up_written    \* the status codes of the responses written to the socket

upVars == << up_status, up_request, up_written >>

\* ::tolower on one character
tolower(ch) == IF ch >= 65 /\ ch <= 90 THEN ch + 32 ELSE ch

\* std::transform(..., ::tolower)
ToLower(str) == [i \in DOMAIN str |-> tolower(str[i])]

\* str.find(sub) != npos
Contains(str, sub) ==
    \E i \in 0 .. Len(str) - Len(sub) : SubSeq(str, i + 1, i + Len(sub)) = sub

\* the texts of the handshake
S_websocket == << 119, 101, 98, 115, 111, 99, 107, 101, 116 >>
S_upgrade == << 117, 112, 103, 114, 97, 100, 101 >>
S_connection == << 99, 111, 110, 110, 101, 99, 116, 105, 111, 110 >>
S_key == << 115, 101, 99, 45, 119, 101, 98, 115, 111, 99, 107, 101, 116, 45, 107, 101, 121 >>
S_version == << 115, 101, 99, 45, 119, 101, 98, 115, 111, 99, 107, 101, 116, 45, 118, 101, 114, 115, 105, 111, 110 >>
S_13 == << 49, 51 >>
S_GET == << 71, 69, 84 >>

\* header lines a client may send: name and value
UpgradeLines ==
    { << << 85, 112, 103, 114, 97, 100, 101 >>, S_websocket >>, << << 85, 80, 71, 82, 65, 68, 69 >>, << 87, 101, 98, 83, 111, 99, 107, 101, 116 >> >>,
      << << 85, 112, 103, 114, 97, 100, 101 >>, << 119, 101, 98, 115, 111, 99, 107, 101, 116, 44, 32, 104, 50, 99 >> >>, << << 85, 112, 103, 114, 97, 100, 101 >>, << 104, 50, 99 >> >> }
ConnectionLines ==
    { << << 67, 111, 110, 110, 101, 99, 116, 105, 111, 110 >>, << 85, 112, 103, 114, 97, 100, 101 >> >>, << S_connection, << 107, 101, 101, 112, 45, 97, 108, 105, 118, 101, 44, 32, 85, 112, 103, 114, 97, 100, 101 >> >>,
      << << 67, 111, 110, 110, 101, 99, 116, 105, 111, 110 >>, << 99, 108, 111, 115, 101 >> >> }
KeyLines == { << << 83, 101, 99, 45, 87, 101, 98, 83, 111, 99, 107, 101, 116, 45, 75, 101, 121 >>, << 97, 50, 86, 53 >> >> }
VersionLines ==
    { << << 83, 101, 99, 45, 87, 101, 98, 83, 111, 99, 107, 101, 116, 45, 86, 101, 114, 115, 105, 111, 110 >>, S_13 >>, << << 83, 101, 99, 45, 87, 101, 98, 83, 111, 99, 107, 101, 116, 45, 86, 101, 114, 115, 105, 111, 110 >>, << 56 >> >> }

\* zero or one line of a set of lines, as a sequence
Optional(lines) == { << >> } \cup { << l >> : l \in lines }

\* the requests: a request line with or without its version, and headers
UpgradeRequests ==
    { [method |-> m, version |-> v, lines |-> u \o c \o k \o w] :
        m \in { S_GET, << 80, 79, 83, 84 >> }, v \in BOOLEAN,
        u \in Optional(UpgradeLines), c \in Optional(ConnectionLines),
        k \in Optional(KeyLines), w \in Optional(VersionLines) }

NoUpgradeRequest == [method |-> << >>, version |-> FALSE, lines |-> << >>]

\* WebSocketServer::parseHttpRequest: false when the request line has not
\* three words; headers[tolower(name)] = value, a later line replacing an
\* earlier one of the same name
parseHttpRequest(req) ==
    [ok |-> req.version,
     method |-> req.method,
     headers |-> [name \in { ToLower(req.lines[i][1]) : i \in DOMAIN req.lines } |->
                    LET last_i == CHOOSE i \in DOMAIN req.lines :
                                     /\ ToLower(req.lines[i][1]) = name
                                     /\ \A j \in DOMAIN req.lines :
                                           ToLower(req.lines[j][1]) = name => j <= i
                    IN req.lines[last_i][2]]]

\* WebSocketServer::isWebSocketUpgrade
isWebSocketUpgrade(headers) ==
    /\ { S_upgrade, S_connection, S_key, S_version } \subseteq DOMAIN headers
    /\ ToLower(headers[S_upgrade]) = S_websocket
    /\ Contains(ToLower(headers[S_connection]), S_upgrade)
    /\ headers[S_version] = S_13

\* WebSocketServer::handleHttpRequest with upgradeToWebSocket: the status
\* code written, and the status of the connection afterwards
handleHttpRequest(req) ==
    LET r == parseHttpRequest(req)
    IN IF ~r.ok THEN [written |-> 400, status |-> "CONNECTING"]
       ELSE IF r.method = S_GET /\ isWebSocketUpgrade(r.headers)
            THEN [written |-> 101, status |-> "OPEN"]
       ELSE [written |-> 400, status |-> "CONNECTING"]

\* the socket of a connection that is CONNECTING reads the request req,
\* whole: onData gives it to handleHttpRequest
UpgradeData(req) ==
    /\ up_status = "CONNECTING"
    /\ up_request = NoUpgradeRequest
    /\ up_request' = req
    /\ up_written' = Append(up_written, handleHttpRequest(req).written)
    /\ up_status' = handleHttpRequest(req).status

\* the connection goes away
UpgradeClose ==
    /\ up_request # NoUpgradeRequest
    /\ up_request' = NoUpgradeRequest
    /\ up_written' = << >>
    /\ up_status' = "CONNECTING"

InitUpgrade ==
    /\ up_status = "CONNECTING"
    /\ up_request = NoUpgradeRequest
    /\ up_written = << >>

(***************************************************************************)
(* The opening handshake of the WebSocket client: the bytes of the         *)
(* server's response, and of the frames behind it, reach the client's      *)
(* socket in reads that cut them anywhere.  src/websocket_client.cpp       *)
(* (fromSocket, handleSocketData, parseHandshakeResponse, parseFrame),     *)
(* src/socket.cpp (onEvent).                                               *)
(***************************************************************************)
VARIABLES
    cl_status,       \* WebSocketClient::status
    cl_response,     \* the response the server sent
    cl_frames,       \* the payloads of the text frames it sent behind it
    cl_stream,       \* the bytes the socket has still to read
    cl_read_buffer,  \* Socket::read_buffer of the client's socket
    cl_onOpen,       \* the number of calls of onOpen
    cl_onMessage,    \* the texts given to onMessage
    cl_written       \* the frames the client wrote to its socket

clientVars == << cl_status, cl_response, cl_frames, cl_stream, cl_read_buffer,
                 cl_onOpen, cl_onMessage, cl_written >>

\* "101", "Upgrade: websocket", "Connection: Upgrade", "Sec-WebSocket-Accept:"
S_101 == << 49, 48, 49 >>
S_UpgradeWebsocket == << 85, 112, 103, 114, 97, 100, 101, 58, 32, 119, 101, 98, 115, 111, 99,
       107, 101, 116 >>
S_ConnectionUpgrade == << 67, 111, 110, 110, 101, 99, 116, 105, 111, 110, 58, 32, 85, 112, 103,
       114, 97, 100, 101 >>
S_Accept == << 83, 101, 99, 45, 87, 101, 98, 83, 111, 99, 107, 101, 116, 45, 65, 99,
       99, 101, 112, 116, 58 >>

\* the response of WebSocketServer::buildHandshakeResponse
SwitchingProtocols ==
    << 72, 84, 84, 80, 47, 49, 46, 49, 32, 49, 48, 49, 32, 83, 119, 105, 116,
       99, 104, 105, 110, 103, 32, 80, 114, 111, 116, 111, 99, 111, 108,
       115, 13, 10, 85, 112, 103, 114, 97, 100, 101, 58, 32, 119, 101, 98,
       115, 111, 99, 107, 101, 116, 13, 10, 67, 111, 110, 110, 101, 99,
       116, 105, 111, 110, 58, 32, 85, 112, 103, 114, 97, 100, 101, 13, 10,
       83, 101, 99, 45, 87, 101, 98, 83, 111, 99, 107, 101, 116, 45, 65,
       99, 99, 101, 112, 116, 58, 32, 97, 50, 86, 53, 13, 10, 13, 10 >>

\* a 101 response without Sec-WebSocket-Accept
NoAccept ==
    << 72, 84, 84, 80, 47, 49, 46, 49, 32, 49, 48, 49, 32, 83, 119, 105, 116,
       99, 104, 105, 110, 103, 32, 80, 114, 111, 116, 111, 99, 111, 108,
       115, 13, 10, 85, 112, 103, 114, 97, 100, 101, 58, 32, 119, 101, 98,
       115, 111, 99, 107, 101, 116, 13, 10, 67, 111, 110, 110, 101, 99,
       116, 105, 111, 110, 58, 32, 85, 112, 103, 114, 97, 100, 101, 13, 10,
       13, 10 >>

\* the server's answer to a request that is no upgrade
BadRequestResponse == BadRequest

HandshakeResponses == { SwitchingProtocols, NoAccept, BadRequestResponse }

\* std::getline over data, line after line: the lines without their '\n';
\* what follows the last '\n' is a line too when it is not empty
RECURSIVE ByteLines(_)
ByteLines(data) ==
    IF data = << >> THEN << >>
    ELSE IF \E i \in DOMAIN data : data[i] = 10
         THEN LET i == CHOOSE i \in DOMAIN data :
                          data[i] = 10 /\ \A j \in 1 .. i - 1 : data[j] # 10
              IN << SubSeq(data, 1, i - 1) >> \o ByteLines(SubSeq(data, i + 1, Len(data)))
    ELSE << data >>

\* WebSocketClient::parseHandshakeResponse: the status line holds "101",
\* and among the lines up to the first "\r" or empty line one holds
\* "Upgrade: websocket", another "Connection: Upgrade", another
\* "Sec-WebSocket-Accept:"
parseHandshakeResponse(data) ==
    LET lines == ByteLines(data)
        stop  == { i \in 2 .. Len(lines) : lines[i] = << 13 >> \/ lines[i] = << >> }
        end   == IF stop = { } THEN Len(lines)
                 ELSE (CHOOSE i \in stop : \A j \in stop : i <= j) - 1
        up(l) == Contains(l, S_UpgradeWebsocket)
        co(l) == ~up(l) /\ Contains(l, S_ConnectionUpgrade)
        ac(l) == ~up(l) /\ ~co(l) /\ Contains(l, S_Accept)
    IN /\ (lines # << >> => Contains(lines[1], S_101))
       /\ \E i \in 2 .. end : up(lines[i])
       /\ \E i \in 2 .. end : co(lines[i])
       /\ \E i \in 2 .. end : ac(lines[i])

\* what WebSocketClient::parseFrame does with the frame it decoded, on
\* client state c = [onMessage, written, status]
clientDispatchFrame(c, f) ==
    IF f = NoFrame THEN c
    ELSE IF f.opcode = TEXT THEN [c EXCEPT !.onMessage = Append(@, f.payload)]
    ELSE IF f.opcode = CLOSE
         THEN IF c.status = "CLOSED" THEN c
              ELSE [c EXCEPT !.status = "CLOSED",
                             !.written = Append(@, clientBuildFrame(
                                 IF Len(f.payload) >= 2 THEN f.payload ELSE << 3, 232 >>,
                                 CLOSE, PeerKey))]
    ELSE IF f.opcode = PING
         THEN [c EXCEPT !.written = Append(@, clientBuildFrame(f.payload, PONG, PeerKey))]
    ELSE c

\* WebSocketClient::connect has sent the request; the server answers with
\* resp and sends the text frames with payloads ps behind it
ClientConnect(resp, ps) ==
    /\ cl_status = "CLOSED" /\ cl_response = << >>
    /\ cl_status' = "CONNECTING"
    /\ cl_response' = resp
    /\ cl_frames' = ps
    /\ cl_stream' = resp \o Concat([i \in DOMAIN ps |-> buildFrame(ps[i], TEXT)])
    /\ cl_read_buffer' = << >>
    /\ cl_onOpen' = 0
    /\ cl_onMessage' = << >>
    /\ cl_written' = << >>

\* one tick in which the socket reads the next k bytes: Socket::onEvent
\* appends them to read_buffer and calls onData with read_buffer, that is
\* WebSocketClient::handleSocketData
ClientData(k) ==
    /\ cl_response # << >>
    /\ k \in 1 .. Len(cl_stream)
    /\ LET buf == cl_read_buffer \o SubSeq(cl_stream, 1, k)
           c0  == [onMessage |-> cl_onMessage, written |-> cl_written, status |-> cl_status]
           c   == IF cl_status = "OPEN" THEN clientDispatchFrame(c0, clientParseFrame(buf))
                  ELSE c0
       IN /\ cl_read_buffer' = buf
          /\ cl_status' = IF cl_status = "CONNECTING"
                          THEN (IF parseHandshakeResponse(buf) THEN "OPEN" ELSE "CLOSED")
                          ELSE c.status
          /\ cl_onOpen' = IF cl_status = "CONNECTING" /\ parseHandshakeResponse(buf)
                          THEN cl_onOpen + 1 ELSE cl_onOpen
          /\ cl_onMessage' = c.onMessage
          /\ cl_written' = c.written
    /\ cl_stream' = SubSeq(cl_stream, k + 1, Len(cl_stream))
    /\ UNCHANGED << cl_response, cl_frames >>

\* the client is dropped
ClientClose ==
    /\ cl_response # << >>
    /\ cl_status' = "CLOSED"
    /\ cl_response' = << >>
    /\ cl_frames' = << >>
    /\ cl_stream' = << >>
    /\ cl_read_buffer' = << >>
    /\ cl_onOpen' = 0
    /\ cl_onMessage' = << >>
    /\ cl_written' = << >>

InitClient ==
    /\ cl_status = "CLOSED"
    /\ cl_response = << >>
    /\ cl_frames = << >>
    /\ cl_stream = << >>
    /\ cl_read_buffer = << >>
    /\ cl_onOpen = 0
    /\ cl_onMessage = << >>
    /\ cl_written = << >>

(***************************************************************************)
(* An HTTP connection over which the peer sends several requests, each     *)
(* arriving whole in one read.  src/http_server.cpp (handleConnection,     *)
(* handleRequest, parseRequest), src/socket.cpp (onEvent).                 *)
(***************************************************************************)
MaxRequests == 2

VARIABLES
    hc_texts,        \* the texts of the requests the peer has sent, in order
    hc_read_buffer,  \* Socket::read_buffer of the connection
    hc_handled,      \* the requests the route handlers were invoked with
    hc_responses,    \* the status codes of the responses written to the socket
    hc_open          \* the connection's socket has an open descriptor

hcVars == << hc_texts, hc_read_buffer, hc_handled, hc_responses, hc_open >>

\* request lines: two that have a route, one that has none, one with a
\* method the server does not know, one without its version
RequestLines ==
    { << "GET", "SP", "/a", "SP", "HTTP/1.1" >>,
      << "POST", "SP", "/a", "SP", "HTTP/1.1" >>,
      << "GET", "SP", "/b", "SP", "HTTP/1.1" >>,
      << "PATCH", "SP", "/a", "SP", "HTTP/1.1" >>,
      << "GET", "SP", "/a" >> }

\* the text of a request without a body, with or without Connection: close
RequestText(line, closing) ==
    line \o << "CRLF", "Host: h:80", "CRLF" >>
         \o (IF closing THEN << "Connection: close", "CRLF" >> ELSE << >>)
         \o << "CRLF" >>

RequestTexts == { RequestText(line, closing) : line \in RequestLines, closing \in BOOLEAN }

\* a peer connects; handleConnection installs onData
HcConnect ==
    /\ ~hc_open
    /\ hc_open' = TRUE
    /\ hc_texts' = << >>
    /\ hc_read_buffer' = << >>
    /\ hc_handled' = << >>
    /\ hc_responses' = << >>

\* one tick in which the whole of the peer's next request arrives:
\* Socket::onEvent appends it to read_buffer and calls onData with
\* read_buffer, which runs handleRequest; nothing in them closes the socket
HcRequest(text) ==
    /\ hc_open
    /\ Len(hc_texts) < MaxRequests
    /\ LET buf == hc_read_buffer \o text
           c   == handleRequest([handled |-> hc_handled, responses |-> hc_responses], buf)
       IN /\ hc_read_buffer' = buf
          /\ hc_handled' = c.handled
          /\ hc_responses' = c.responses
    /\ hc_texts' = Append(hc_texts, text)
    /\ UNCHANGED hc_open

\* the application drops the connection and its socket
HcClose ==
    /\ hc_open
    /\ hc_open' = FALSE
    /\ hc_texts' = << >>
    /\ hc_read_buffer' = << >>
    /\ hc_handled' = << >>
    /\ hc_responses' = << >>

InitHc ==
    /\ hc_open = FALSE
    /\ hc_texts = << >>
    /\ hc_read_buffer = << >>
    /\ hc_handled = << >>
    /\ hc_responses = << >>

(***************************************************************************)
(* The task sequence (src/sequence.cpp) over the timers of the poller it    *)
(* is built on (src/src/websrv/poller.cpp 207-333).  The variable sequence *)
(* holds the fields of one Sequence, and the timer table and the cleanup   *)
(* tasks of its Poller.  Times are                                         *)
(* relative: a timer holds the time left to its expiry, and elapsed is the *)
(* time since task_start_time; both stop changing at a value beyond which  *)
(* no comparison of the code can tell the difference.                      *)
(***************************************************************************)
MaxTasks == 2
MaxPauses == 1
MaxStarts == 2
MaxAdvance == 2
WaitPeriod == 2
PollPeriod == 1
ConditionTimeout == 2
MaxElapsed == 3

VARIABLES
    sequence,      \* the Sequence, the timer table of its poller, and the log of callbacks
    seq_pauses,    \* calls of pause() made so far
    seq_starts,    \* calls of start() made so far
    seq_last       \* the last operation, and what the predicate returned in it

seqVars == << sequence, seq_pauses, seq_starts, seq_last >>

\* sequence.hpp 42-50: a SequenceTask.  callback is 0 for the empty lambda.
SequenceTask(callback, period_ms, is_condition, timeout_ms) ==
    [callback |-> callback, period_ms |-> period_ms,
     is_condition |-> is_condition, timeout_ms |-> timeout_ms]

\* sequence.cpp 6-8
addTask(w) ==
    [w EXCEPT !.tasks = Append(@, SequenceTask(Len(w.tasks) + 1, 0, FALSE, 0))]

\* sequence.cpp 10-12
addWait(w, period_ms) ==
    [w EXCEPT !.tasks = Append(@, SequenceTask(0, period_ms, FALSE, 0))]

\* sequence.cpp 14-19
addWaitCondition(w, period_ms, timeout_ms) ==
    [w EXCEPT !.tasks = Append(@, SequenceTask(0, period_ms, TRUE, timeout_ms))]

\* poller.cpp 208-226: the new timer gets the id next_timer_id.  The notify()
\* at the end writes nothing when called on the poller's thread.
setTimeout(w, ms, callback) ==
    [w EXCEPT !.timers = @ \cup { [id |-> w.next_timer_id, left |-> ms,
                                   interval_ms |-> ms, callback |-> callback,
                                   is_interval |-> FALSE] },
              !.next_timer_id = @ + 1]

\* poller.cpp 228-246
setInterval(w, ms, callback) ==
    [w EXCEPT !.timers = @ \cup { [id |-> w.next_timer_id, left |-> ms,
                                   interval_ms |-> ms, callback |-> callback,
                                   is_interval |-> TRUE] },
              !.next_timer_id = @ + 1]

\* poller.cpp 248-255: the erase is put off to the next processCleanupTasks.
\* cleanupTasks holds the ids the queued tasks will erase; their order and
\* their repetitions make no difference to what they erase.
clearTimeout(w, timer_id) ==
    [w EXCEPT !.cleanupTasks = @ \cup { timer_id }]

\* poller.cpp 257-264
clearInterval(w, timer_id) ==
    [w EXCEPT !.cleanupTasks = @ \cup { timer_id }]

\* poller.cpp 266-271
processCleanupTasks(w) ==
    [w EXCEPT !.timers = { t \in @ : t.id \notin w.cleanupTasks },
              !.cleanupTasks = { }]

\* poller.cpp 327-330: a one-shot timer is erased after its callback.
eraseTimer(w, timer_id) ==
    [w EXCEPT !.timers = { t \in @ : t.id # timer_id }]

\* sequence.cpp 67-106
executeNextTask(w) ==
    IF ~ w.running \/ w.current_task_index >= Len(w.tasks)
    THEN [w EXCEPT !.running = FALSE]
    ELSE IF w.paused THEN w
    ELSE LET task == w.tasks[w.current_task_index + 1]
             period_to_use == IF w.remaining_time_ms > 0
                              THEN w.remaining_time_ms ELSE task.period_ms
         IN  setTimeout([w EXCEPT !.elapsed = 0,
                                  !.remaining_time_ms = 0,
                                  !.current_timer_id = w.next_timer_id],
                        period_to_use, [lambda |-> "task", task |-> task])

\* sequence.cpp 56-65
postNextTask(w) ==
    executeNextTask([w EXCEPT !.current_task_index = @ + 1, !.current_timer_id = 0])

\* A timeout test that lets the step wait one more period at the boundary.
timedOutStrict(elapsed, timeout_ms) == elapsed > timeout_ms

\* sequence.cpp 137: the test that ends a condition step whose predicate is false.
timedOut(elapsed, timeout_ms) == elapsed >= timeout_ms

\* sequence.cpp 108-149; condition is the value the predicate returns.
executeCondition(w, condition) ==
    IF ~ w.running THEN w
    ELSE IF w.paused THEN w
    ELSE LET task == w.tasks[w.current_task_index + 1]
         IN  IF ~ task.is_condition THEN w
             ELSE IF condition THEN postNextTask(w)
             ELSE IF timedOut(w.elapsed, task.timeout_ms) THEN postNextTask(w)
             ELSE setTimeout([w EXCEPT !.current_timer_id = w.next_timer_id],
                             task.period_ms,
                             [lambda |-> "condition", task |-> task])

\* A task's callback (sequence_test.cpp 17-30): it is logged, and it may add a task.
callback(w, task, adds) ==
    LET logged == [w EXCEPT !.invoked = Append(@, task.callback)]
    IN  IF adds /\ task.callback # 0 /\ Len(w.tasks) < MaxTasks
        THEN addTask(logged) ELSE logged

\* The two lambdas handed to setTimeout (sequence.cpp 90-105 and 146).
timerCallback(w, cb, condition, adds) ==
    IF cb.lambda = "condition" THEN executeCondition(w, condition)
    ELSE IF ~ w.running \/ w.paused THEN w
    ELSE IF cb.task.is_condition THEN executeCondition(w, condition)
    ELSE postNextTask(callback(w, cb.task, adds))

\* poller.cpp 301-333: the ids that have expired are collected first, then
\* each one still in the table runs its callback and is erased.
RECURSIVE runExpired(_, _, _, _)
runExpired(w, expired, condition, adds) ==
    IF expired = { } THEN w
    ELSE LET id == MinOf(expired)
             found == { t \in w.timers : t.id = id }
             after == IF found = { } THEN w
                      ELSE eraseTimer(
                               timerCallback(w, (CHOOSE t \in found : TRUE).callback,
                                             condition, adds), id)
         IN  runExpired(after, expired \ { id }, condition, adds)

processExpiredTimers(w, condition, adds) ==
    runExpired(w, { t.id : t \in { u \in w.timers : u.left = 0 } }, condition, adds)

\* sequence.cpp 32-42
start(w) ==
    IF w.running THEN w
    ELSE executeNextTask([w EXCEPT !.running = TRUE, !.current_task_index = 0])

\* sequence.cpp 44-54
stop(w) ==
    LET s == [w EXCEPT !.running = FALSE, !.paused = FALSE, !.remaining_time_ms = 0]
    IN  IF w.current_timer_id # 0
        THEN [clearTimeout(s, w.current_timer_id) EXCEPT !.current_timer_id = 0]
        ELSE s

\* sequence.cpp 169-177: the time that pause() stores for the task.
remainingTime(w, task) ==
    LET total_time == IF w.remaining_time_ms > 0
                      THEN w.remaining_time_ms ELSE task.timeout_ms
    IN  IF w.elapsed < total_time THEN total_time - w.elapsed ELSE 0

\* sequence.cpp 153-184
pause(w) ==
    IF ~ w.running \/ w.paused THEN w
    ELSE LET p == [w EXCEPT !.paused = TRUE]
         IN  IF w.current_timer_id = 0 THEN p
             ELSE LET stored ==
                          IF w.current_task_index < Len(w.tasks)
                          THEN [p EXCEPT !.remaining_time_ms =
                                    remainingTime(w, w.tasks[w.current_task_index + 1])]
                          ELSE p
                  IN  [clearTimeout(stored, w.current_timer_id)
                          EXCEPT !.current_timer_id = 0]

\* sequence.cpp 189-198
resume(w) ==
    IF ~ w.running \/ ~ w.paused THEN w
    ELSE executeNextTask([w EXCEPT !.paused = FALSE])

\* The steady clock moves on by dt.
advanceClock(w, dt) ==
    [w EXCEPT !.elapsed = IF @ + dt > MaxElapsed THEN MaxElapsed ELSE @ + dt,
              !.timers = { [t EXCEPT !.left = IF @ > dt THEN @ - dt ELSE 0] : t \in @ }]

SeqOp(op, condition) == [op |-> op, condition |-> condition]

SeqAddTask ==
    /\ Len(sequence.tasks) < MaxTasks
    /\ sequence' = addTask(sequence)
    /\ seq_last' = SeqOp("addTask", FALSE)
    /\ UNCHANGED << seq_pauses, seq_starts >>

SeqAddWait ==
    /\ Len(sequence.tasks) < MaxTasks
    /\ sequence' = addWait(sequence, WaitPeriod)
    /\ seq_last' = SeqOp("addWait", FALSE)
    /\ UNCHANGED << seq_pauses, seq_starts >>

SeqAddWaitCondition ==
    /\ Len(sequence.tasks) < MaxTasks
    /\ sequence' = addWaitCondition(sequence, PollPeriod, ConditionTimeout)
    /\ seq_last' = SeqOp("addWaitCondition", FALSE)
    /\ UNCHANGED << seq_pauses, seq_starts >>

\* start(); the log of callbacks begins anew with each run.
SeqStart ==
    /\ seq_starts < MaxStarts
    /\ ~ sequence.running
    /\ sequence' = start([sequence EXCEPT !.invoked = << >>])
    /\ seq_starts' = seq_starts + 1
    /\ seq_last' = SeqOp("start", FALSE)
    /\ UNCHANGED seq_pauses

\* start() on a sequence that is running.
SeqStartAgain ==
    /\ sequence.running
    /\ sequence' = start(sequence)
    /\ seq_last' = SeqOp("startAgain", FALSE)
    /\ UNCHANGED << seq_pauses, seq_starts >>

SeqStop ==
    /\ sequence.running
    /\ sequence' = stop(sequence)
    /\ seq_last' = SeqOp("stop", FALSE)
    /\ UNCHANGED << seq_pauses, seq_starts >>

SeqPause ==
    /\ seq_pauses < MaxPauses
    /\ sequence.running /\ ~ sequence.paused
    /\ sequence' = pause(sequence)
    /\ seq_pauses' = seq_pauses + 1
    /\ seq_last' = SeqOp("pause", FALSE)
    /\ UNCHANGED seq_starts

SeqResume ==
    /\ sequence.running /\ sequence.paused
    /\ sequence' = resume(sequence)
    /\ seq_last' = SeqOp("resume", FALSE)
    /\ UNCHANGED << seq_pauses, seq_starts >>

\* poller.cpp 124-148: poll() returns with an event, and the loop runs the
\* cleanup tasks; after a poll() that timed out it does not (133-136).
SeqCleanup ==
    /\ sequence.cleanupTasks # { }
    /\ sequence' = processCleanupTasks(sequence)
    /\ seq_last' = SeqOp("cleanup", FALSE)
    /\ UNCHANGED << seq_pauses, seq_starts >>

\* poller.cpp 92-94: a pass of the poller's loop that finds a timer expired.
SeqTimers(condition, adds) ==
    /\ \E t \in sequence.timers : t.left = 0
    /\ sequence' = processExpiredTimers(sequence, condition, adds)
    /\ seq_last' = SeqOp("timers", condition)
    /\ UNCHANGED << seq_pauses, seq_starts >>

SeqElapse(dt) ==
    /\ sequence' = advanceClock(sequence, dt)
    /\ sequence' # sequence
    /\ seq_last' = SeqOp("elapse", FALSE)
    /\ UNCHANGED << seq_pauses, seq_starts >>

\* sequence.hpp 52-63: the members after construction; task_start_time is the epoch.
InitSeq ==
    /\ sequence = [tasks |-> << >>, current_task_index |-> 0, running |-> FALSE,
                   paused |-> FALSE, current_timer_id |-> 0, elapsed |-> MaxElapsed,
                   remaining_time_ms |-> 0, timers |-> { }, next_timer_id |-> 1,
                   cleanupTasks |-> { },
                   invoked |-> << >>]
    /\ seq_pauses = 0
    /\ seq_starts = 0
    /\ seq_last = SeqOp("init", FALSE)

(***************************************************************************)
(* The timers of the poller's loop on their own (src/src/websrv/poller.cpp *)
(* 83-190, 207-333): an application sets and clears timeouts and intervals *)
(* whose callbacks do nothing but run.  The loop alternates between the    *)
(* pass over the expired timers and poll().                                *)
(***************************************************************************)
MaxTimerIds == 3
MaxWait == 2

VARIABLES
    loop_timers,    \* the poller's timers, next_timer_id and cleanupTasks
    loop_pc,        \* where the loop is: "timers" (line 94) or "poll" (line 124)
    loop_cleared,   \* the ids that clearTimeout or clearInterval was called for
    loop_last       \* the last operation, and the ids whose callbacks it invoked

loopTimerVars == << loop_timers, loop_pc, loop_cleared, loop_last >>

AppCallback == [lambda |-> "app", task |-> 0]

LoopOp(op, invoked) == [op |-> op, invoked |-> invoked]

\* poller.cpp 301-333 with callbacks that leave the timers alone: every timer
\* that has expired runs its callback; an interval is armed again, a timeout
\* is erased.
expireTimers(w) ==
    [w EXCEPT !.timers = { [t EXCEPT !.left = t.interval_ms] :
                              t \in { u \in @ : u.left > 0 \/ u.is_interval } }]

\* The ids whose callbacks that pass invokes (poller.cpp 306-321).
expiredTimers(w) == { t.id : t \in { u \in w.timers : u.left = 0 } }

LoopSetTimeout(ms) ==
    /\ loop_timers.next_timer_id <= MaxTimerIds
    /\ loop_timers' = setTimeout(loop_timers, ms, AppCallback)
    /\ loop_last' = LoopOp("setTimeout", { })
    /\ UNCHANGED << loop_pc, loop_cleared >>

LoopSetInterval(ms) ==
    /\ loop_timers.next_timer_id <= MaxTimerIds
    /\ ms > 0
    /\ loop_timers' = setInterval(loop_timers, ms, AppCallback)
    /\ loop_last' = LoopOp("setInterval", { })
    /\ UNCHANGED << loop_pc, loop_cleared >>

LoopClearTimeout(timer_id) ==
    /\ \E t \in loop_timers.timers : t.id = timer_id /\ ~ t.is_interval
    /\ loop_timers' = clearTimeout(loop_timers, timer_id)
    /\ loop_cleared' = loop_cleared \cup { timer_id }
    /\ loop_last' = LoopOp("clearTimeout", { })
    /\ UNCHANGED loop_pc

LoopClearInterval(timer_id) ==
    /\ \E t \in loop_timers.timers : t.id = timer_id /\ t.is_interval
    /\ loop_timers' = clearInterval(loop_timers, timer_id)
    /\ loop_cleared' = loop_cleared \cup { timer_id }
    /\ loop_last' = LoopOp("clearInterval", { })
    /\ UNCHANGED loop_pc

\* poller.cpp 92-94: the pass over the expired timers at the top of the loop.
LoopTimers ==
    /\ loop_pc = "timers"
    /\ loop_timers' = expireTimers(loop_timers)
    /\ loop_pc' = "poll"
    /\ loop_last' = LoopOp("timers", expiredTimers(loop_timers))
    /\ UNCHANGED loop_cleared

\* poller.cpp 124-148: poll() returns after dt ms, with an event or without
\* one; only with an event does the loop run the cleanup tasks.
LoopPolled(dt, event) ==
    /\ loop_pc = "poll"
    /\ loop_timers' =
          LET waited == [loop_timers EXCEPT
                            !.timers = { [t EXCEPT !.left = IF @ > dt THEN @ - dt ELSE 0] :
                                            t \in @ }]
          IN  IF event THEN processCleanupTasks(waited) ELSE waited
    /\ loop_pc' = "timers"
    /\ loop_last' = LoopOp(IF event THEN "event" ELSE "timeout", { })
    /\ UNCHANGED loop_cleared

InitLoopTimers ==
    /\ loop_timers = [timers |-> { }, next_timer_id |-> 1, cleanupTasks |-> { }]
    /\ loop_pc = "timers"
    /\ loop_cleared = { }
    /\ loop_last = LoopOp("init", { })

(***************************************************************************)
(* The notification pipe of the poller (src/src/websrv/poller.cpp 47-63,   *)
(* 83-148, 336-384).  One thread runs Poller::start; another thread calls  *)
(* notify() at any moment.                                                 *)
(***************************************************************************)
MaxBytes == 2
PollTimeout == 2

VARIABLES
    notifier,        \* the poller as notify() and the loop see it
    np_unanswered,   \* another thread has called notify() and no drain has followed
    np_last          \* the last step

notifyVars == << notifier, np_unanswered, np_last >>

Threads == { "reactor", "other" }

\* poller.cpp 366: notification_pipe[0] != -1
hasNotificationPipe(w) == w.notification_pipe

\* poller.cpp 47-63: the byte written to the pipe, if any.
notify(w, thread) ==
    IF thread = w.poller_thread_id THEN w
    ELSE IF hasNotificationPipe(w) THEN [w EXCEPT !.bytes = @ + 1]
    ELSE w

\* poller.cpp 368-384: reads until the pipe is empty.
drainNotificationPipe(w) ==
    IF hasNotificationPipe(w) THEN [w EXCEPT !.bytes = 0] ELSE w

\* poller.cpp 336-353: pipe() succeeds or fails.
createNotificationPipe(w, created) ==
    IF ~ w.notification_pipe THEN [w EXCEPT !.notification_pipe = created] ELSE w

\* poll() finds the read end of the pipe readable (poller.cpp 103-110, 124).
PipeReadable(w) == hasNotificationPipe(w) /\ w.bytes > 0

\* poller.cpp 83-90: start() up to the loop.
NpStart(created) ==
    /\ notifier.pc = "idle"
    /\ notifier' = [createNotificationPipe(
                       [notifier EXCEPT !.running = TRUE, !.poller_thread_id = "reactor"],
                       created)
                    EXCEPT !.pc = "top"]
    /\ np_last' = "start"
    /\ UNCHANGED np_unanswered

\* notify() called by either thread; the reactor's own thread calls it only
\* where it runs application code (before start(), in timer callbacks at the
\* top of the loop, in handlers during dispatch).
NpNotify(thread) ==
    /\ thread = "reactor" => notifier.pc \in { "idle", "top", "dispatch" }
    /\ notifier.bytes < MaxBytes
    /\ notifier' = notify(notifier, thread)
    /\ np_unanswered' = (np_unanswered \/ thread = "other")
    /\ np_last' = IF thread = "other" THEN "notify" ELSE "notifySelf"

\* poller.cpp 92-122: timers, POLLOUT updates, the timeout and pollFds.
NpTop ==
    /\ notifier.pc = "top"
    /\ notifier' = [notifier EXCEPT !.pc = "poll", !.waited = 0]
    /\ np_last' = "top"
    /\ UNCHANGED np_unanswered

\* poll() stays blocked for another millisecond: nothing is readable.
NpBlock ==
    /\ notifier.pc = "poll"
    /\ ~ PipeReadable(notifier)
    /\ notifier.waited < PollTimeout
    /\ notifier' = [notifier EXCEPT !.waited = @ + 1]
    /\ np_last' = "block"
    /\ UNCHANGED np_unanswered

\* poller.cpp 124-136: poll() returns: interrupted (EINTR), with events
\* (the pipe or a descriptor ready), or after its full timeout.
NpReturn(ready, interrupted) ==
    /\ notifier.pc = "poll"
    /\ IF interrupted
         THEN /\ notifier' = [notifier EXCEPT !.pc = "top"]
              /\ np_last' = "interrupted"
         ELSE IF PipeReadable(notifier) \/ ready
         THEN /\ notifier' = [notifier EXCEPT !.pc = "events",
                                              !.revents = PipeReadable(notifier)]
              /\ np_last' = "events"
         ELSE /\ notifier.waited = PollTimeout
              /\ notifier' = [notifier EXCEPT !.pc = "top"]
              /\ np_last' = "timeout"
    /\ UNCHANGED np_unanswered

\* poller.cpp 138-148: the pipe is drained when poll() reported it readable.
NpDrain ==
    /\ notifier.pc = "events"
    /\ notifier' = [(IF hasNotificationPipe(notifier) /\ notifier.revents
                       THEN drainNotificationPipe(notifier) ELSE notifier)
                    EXCEPT !.pc = "dispatch"]
    /\ np_unanswered' = IF hasNotificationPipe(notifier) /\ notifier.revents
                          THEN FALSE ELSE np_unanswered
    /\ np_last' = "drain"

\* poller.cpp 150-189: the handlers of the ready descriptors.
NpDispatch ==
    /\ notifier.pc = "dispatch"
    /\ notifier' = [notifier EXCEPT !.pc = "top"]
    /\ np_last' = "dispatch"
    /\ UNCHANGED np_unanswered

InitNotify ==
    /\ notifier = [pc |-> "idle", running |-> FALSE, poller_thread_id |-> "none",
                   notification_pipe |-> FALSE, bytes |-> 0, waited |-> 0,
                   revents |-> FALSE]
    /\ np_unanswered = FALSE
    /\ np_last = "init"

(***************************************************************************)
(* The allocation of pollable ids over the whole range of the 32-bit       *)
(* counter (src/include/websrv/pollable.hpp 33-37, src/pollable_pool.hpp   *)
(* 9-16, src/src/websrv/poller.cpp 13-41).  A uint32_t is kept as its two  *)
(* 16-bit halves << high, low >>.                                          *)
(***************************************************************************)
Half == 65536
MaxCreates == 6
ChurnFrom == 2

VARIABLES
    registry,      \* next_id, the items of both pools and pollEntries
    id_created,    \* how many pollables have been created one by one
    id_last        \* the last operation, its id and the ids alive before it

idVars == << registry, id_created, id_last >>

PollableTypes == { "SOCKET", "LISTENER" }

\* uint32_t ++ (pollable.hpp 36)
increment(n) ==
    IF n[2] + 1 < Half THEN << n[1], n[2] + 1 >>
    ELSE << (n[1] + 1) % Half, 0 >>

\* a < b as unsigned 32-bit numbers
Below(a, b) == a[1] < b[1] \/ (a[1] = b[1] /\ a[2] < b[2])

\* pollable.hpp 33-37: return next_id++
allocate32(w) == [id |-> w.next_id, registry |-> [w EXCEPT !.next_id = increment(@)]]

\* pollable_pool.hpp 9-14: items[id] is the item already there, or a new one.
create(w, type) ==
    LET a == allocate32(w)
    IN  [id |-> a.id,
         registry |-> IF type = "SOCKET"
                        THEN [a.registry EXCEPT !.sockets = @ \cup { a.id }]
                        ELSE [a.registry EXCEPT !.listeners = @ \cup { a.id }]]

\* poller.cpp 25-30: pollEntries[pollable->id] = PollEntry{pollable, POLLIN}
addPollable32(w, id, type) ==
    [w EXCEPT !.pollEntries = { e \in @ : e.id # id } \cup { [id |-> id, type |-> type] }]

\* poller.cpp 13-23
createPollable(w, type) ==
    LET c == create(w, type)
    IN  addPollable32(c.registry, c.id, type)

\* poller.cpp 32-41
removePollable(w, id) ==
    [w EXCEPT !.pollEntries = { e \in @ : e.id # id },
              !.sockets = @ \ { id },
              !.listeners = @ \ { id }]

\* The ids of the pollables alive in the pools.
Alive(w) == w.sockets \cup w.listeners

IdOp(op, id, alive) == [op |-> op, id |-> id, alive |-> alive]

IdCreate(type) ==
    /\ id_created < MaxCreates
    /\ registry' = createPollable(registry, type)
    /\ id_created' = id_created + 1
    /\ id_last' = IdOp("create", registry.next_id, Alive(registry))

IdRemove(id) ==
    /\ id \in Alive(registry)
    /\ registry' = removePollable(registry, id)
    /\ id_last' = IdOp("remove", id, Alive(registry))
    /\ UNCHANGED id_created

\* A long life of the server in one step: from next_id = ChurnFrom, sockets
\* are created and removed again, one after the other, until next_id is two
\* below the end of the range.  Each of them gets a fresh id, above every id
\* alive, so nothing but next_id has changed afterwards.
IdChurn ==
    /\ registry.next_id = << 0, ChurnFrom >>
    /\ \A id \in Alive(registry) : Below(id, << 0, ChurnFrom >>)
    /\ registry' = [registry EXCEPT !.next_id = << Half - 1, Half - 2 >>]
    /\ id_last' = IdOp("churn", registry.next_id, Alive(registry))
    /\ UNCHANGED id_created

InitIds ==
    /\ registry = [next_id |-> << 0, 0 >>, sockets |-> { }, listeners |-> { },
                   pollEntries |-> { }]
    /\ id_created = 0
    /\ id_last = IdOp("init", << 0, 0 >>, { })

(***************************************************************************)
(* HttpClient (src/http_client.cpp 64-87, 177-244) over the callback-layer *)
(* Socket (src/socket.cpp 8-18).  A byte of a response is kept as the      *)
(* client and the request it answers and what it is part of: "head"        *)
(* (status line and headers), "end" (the blank line "\r\n\r\n"), "body".   *)
(***************************************************************************)
MaxSends == 3

VARIABLES
    parse_buffer,     \* static std::string buffer of HttpClient::parseResponse
    http_clients,     \* per client: response, socket read_buffer, bytes still to arrive, requests sent
    http_requests,    \* the requests sent by all clients together
    http_last         \* the last operation

clientHttpVars == << parse_buffer, http_clients, http_requests, http_last >>

HttpClients == { 1, 2 }

ResponseByte(c, n, part) == [client |-> c, request |-> n, part |-> part]

\* What the server sends in answer to request n of client c.
ResponseTo(c, n) ==
    << ResponseByte(c, n, "head"), ResponseByte(c, n, "end"), ResponseByte(c, n, "body") >>

\* buffer.find("\r\n\r\n"): the first position of the blank line, 0 for npos
FindEnd(buffer) ==
    IF \E i \in DOMAIN buffer : buffer[i].part = "end"
    THEN CHOOSE i \in DOMAIN buffer :
            /\ buffer[i].part = "end"
            /\ \A j \in 1 .. (i - 1) : buffer[j].part # "end"
    ELSE 0

\* HttpClient::parseResponse (http_client.cpp 177-239)
parseResponse(buffer, response, data) ==
    LET appended   == buffer \o data
        header_end == FindEnd(appended)
    IN  IF header_end = 0 THEN [buffer |-> appended, response |-> response]
        ELSE [buffer |-> << >>,
              response |-> [status |-> "COMPLETED",
                            headers |-> SubSeq(appended, 1, header_end - 1),
                            body |-> SubSeq(appended, header_end + 1, Len(appended))]]

PendingResponse == [status |-> "PENDING", headers |-> << >>, body |-> << >>]

\* HttpClient::sendRequest (http_client.cpp 64-87): the response is reset,
\* the socket connects and the request is written; the server's answer is
\* on its way.
HttpClientSend(c) ==
    /\ http_requests < MaxSends
    /\ http_clients[c].incoming = << >>
    /\ http_clients' = [http_clients EXCEPT
                          ![c].response = PendingResponse,
                          ![c].sent = @ + 1,
                          ![c].incoming = ResponseTo(c, http_clients[c].sent + 1)]
    /\ http_requests' = http_requests + 1
    /\ http_last' = "send"
    /\ UNCHANGED parse_buffer

\* Socket::onEvent (socket.cpp 8-18) reads the next k bytes, appends them to
\* read_buffer and passes read_buffer to onData, which is
\* HttpClient::handleSocketData (http_client.cpp 241-244).
HttpClientData(c, k) ==
    /\ k \in 1 .. Len(http_clients[c].incoming)
    /\ LET received == http_clients[c].read_buffer \o SubSeq(http_clients[c].incoming, 1, k)
           parsed == parseResponse(parse_buffer, http_clients[c].response, received)
       IN  /\ parse_buffer' = parsed.buffer
           /\ http_clients' = [http_clients EXCEPT
                                 ![c].read_buffer = received,
                                 ![c].response = parsed.response,
                                 ![c].incoming = SubSeq(@, k + 1, Len(@))]
    /\ http_last' = "data"
    /\ UNCHANGED http_requests

\* The connection is lost before the rest of the response has arrived.
HttpClientLost(c) ==
    /\ http_clients[c].incoming # << >>
    /\ http_clients' = [http_clients EXCEPT ![c].incoming = << >>]
    /\ http_last' = "lost"
    /\ UNCHANGED << parse_buffer, http_requests >>

InitHttpClients ==
    /\ parse_buffer = << >>
    /\ http_clients = [c \in HttpClients |->
                         [response |-> PendingResponse, read_buffer |-> << >>,
                          incoming |-> << >>, sent |-> 0]]
    /\ http_requests = 0
    /\ http_last = "init"

(***************************************************************************)
(* The life of a WebSocketConnection of the server                         *)
(* (src/websocket_server.cpp 46-98, 229-356, 358-475) on a socket whose    *)
(* onEvent appends what it reads to read_buffer and passes read_buffer to  *)
(* onData (src/socket.cpp 8-18).                                           *)
(***************************************************************************)
MaxEvents == 3

VARIABLES
    connection,    \* status, read_buffer and what the connection has written and called
    life_events,   \* the number of reads of the socket so far
    life_last      \* the last operation

lifeVars == << connection, life_events, life_last >>

CRLF == << 13, 10 >>

RECURSIVE HeaderText(_)
\* the header lines as text: name, colon, space, value, CRLF
HeaderText(lines) ==
    IF lines = << >> THEN << >>
    ELSE Head(lines)[1] \o << 58, 32 >> \o Head(lines)[2] \o CRLF \o HeaderText(Tail(lines))

\* the text of a request for "/": request line, headers, blank line
UpgradeText(req) ==
    req.method \o << 32, 47 >>
        \o (IF req.version THEN << 32, 72, 84, 84, 80, 47, 49, 46, 49 >> ELSE << >>)
        \o CRLF \o HeaderText(req.lines) \o CRLF

\* an upgrade request that has all the handshake asks for, and a plain GET
ValidUpgrade ==
    [method |-> S_GET, version |-> TRUE,
     lines |-> << << S_upgrade, S_websocket >>, << S_connection, S_upgrade >>,
                  << S_key, << 97, 50, 86, 53 >> >>, << S_version, S_13 >> >>]
PlainRequest == [method |-> S_GET, version |-> TRUE, lines |-> << >>]

\* the frames the peer sends: a text, a Close, a Ping
LifeFrames ==
    { PeerSends(TRUE, 0, TEXT, TRUE, << 104 >>),
      PeerSends(TRUE, 0, CLOSE, TRUE, << 3, 233 >>),
      PeerSends(TRUE, 0, PING, TRUE, PingPayload) }

\* the part of the connection that parseFrame and close work on
FrameState(w) == [onMessage |-> w.onMessage, written |-> w.written, status |-> w.status]

\* the connection after parseFrame or close has left it as c: close() calls
\* onClose when it has closed the connection
AfterFrames(w, c) ==
    [w EXCEPT !.onMessage = c.onMessage, !.written = c.written, !.status = c.status,
              !.onClose = IF w.status # "CLOSED" /\ c.status = "CLOSED" THEN @ + 1 ELSE @]

\* the onData of WebSocketServer::handleConnection (websocket_server.cpp
\* 57-72) with the socket's read_buffer: handleSocketData when the
\* connection is OPEN, else handleHttpRequest, which parses the request at
\* the head of the buffer
onData(w) ==
    IF w.status = "OPEN"
    THEN AfterFrames(w, dispatchFrame(FrameState(w), parseFrame(w.read_buffer)))
    ELSE LET r == handleHttpRequest(w.request)
         IN  [w EXCEPT !.responses = Append(@, r.written),
                       !.status = IF r.written = 101 THEN "OPEN" ELSE @,
                       !.onConnection = IF r.written = 101 THEN @ + 1 ELSE @]

\* WebSocketConnection::sendText (websocket_server.cpp 294-308)
sendText(w, message) ==
    IF w.status # "OPEN" THEN [w EXCEPT !.onError = @ + 1]
    ELSE [w EXCEPT !.written = Append(@, buildFrame(message, TEXT))]

\* a peer connects and its request arrives, whole
LifeConnect(req) ==
    /\ connection.request = NoUpgradeRequest
    /\ connection' = onData([connection EXCEPT !.request = req,
                                               !.read_buffer = UpgradeText(req)])
    /\ life_last' = "connect"
    /\ UNCHANGED life_events

\* the socket reads the frame f the peer has sent
LifeData(f) ==
    /\ connection.request # NoUpgradeRequest
    /\ life_events < MaxEvents
    /\ connection' = onData([connection EXCEPT !.read_buffer = @ \o StreamWire(f)])
    /\ life_events' = life_events + 1
    /\ life_last' = "data"

\* the application sends a text on a connection it was given by onConnection
LifeSendText ==
    /\ connection.onConnection > 0
    /\ connection.onError < MaxEvents
    /\ Len(connection.written) < MaxEvents
    /\ connection' = sendText(connection, << 104 >>)
    /\ life_last' = "sendText"
    /\ UNCHANGED life_events

\* the application closes a connection it was given by onConnection
\* (websocket_server.cpp 326-356)
LifeClose(payload) ==
    /\ connection.onConnection > 0
    /\ connection' = AfterFrames(connection, close(FrameState(connection), payload))
    /\ life_last' = "close"
    /\ UNCHANGED life_events

InitLife ==
    /\ connection = [status |-> "CONNECTING", request |-> NoUpgradeRequest,
                     read_buffer |-> << >>, written |-> << >>, responses |-> << >>,
                     onMessage |-> << >>, onConnection |-> 0, onClose |-> 0,
                     onError |-> 0]
    /\ life_events = 0
    /\ life_last = "init"

(***************************************************************************)
(* The Executor (src/include/websrv/executor.hpp): worker threads that     *)
(* take tasks from a queue under queueMutex and wait on a condition        *)
(* variable, an owner that starts and stops it, and a thread that submits  *)
(* tasks.  Each step is one access to running, to the mutex or to the      *)
(* condition variable.                                                     *)
(***************************************************************************)
NumThreads == 2
MaxSubmits == 2
MaxRuns == 1

VARIABLES
    executor,      \* running, taskQueue, queueMutex, the threads blocked in condition.wait
    ex_pc,         \* where the owner, the submitter and each worker stand
    ex_last        \* the last step, and the counts of what has happened

executorVars == << executor, ex_pc, ex_last >>

WorkerIds == 1..NumThreads
NoThread == 0
Submitter == NumThreads + 1
Owner == NumThreads + 2

\* the positions of the owner inside stop()
Stopping == { "stop47", "stop51", "stop52", "join", "clear" }

ExStep(op, thread) ==
    ex_last' = [ex_last EXCEPT !.op = op, !.thread = thread,
                               !.submitted = IF op = "push" THEN @ + 1 ELSE @,
                               !.runs = IF op = "start" THEN @ + 1 ELSE @]

\* Executor::start (executor.hpp 30-43): the owner starts the worker threads
ExecutorStart ==
    /\ ex_pc.owner = "idle"
    /\ ~executor.running
    /\ ex_last.runs < MaxRuns
    /\ executor' = [executor EXCEPT !.running = TRUE]
    /\ ex_pc' = [ex_pc EXCEPT !.workers = [w \in WorkerIds |-> "loop"], !.joined = 0]
    /\ ExStep("start", Owner)

\* Executor::stop (executor.hpp 46-67), a step at a time
ExecutorStop ==
    \/ /\ ex_pc.owner = "idle"
       /\ ex_last.runs > 0
       /\ ex_pc' = [ex_pc EXCEPT !.owner = "stop47"]
       /\ ExStep("stop", Owner)
       /\ UNCHANGED executor
    \/ /\ ex_pc.owner = "stop47"                              \* 47-49
       /\ ex_pc' = [ex_pc EXCEPT !.owner = IF executor.running THEN "stop51" ELSE "idle"]
       /\ ExStep(IF executor.running THEN "running" ELSE "returned", Owner)
       /\ UNCHANGED executor
    \/ /\ ex_pc.owner = "stop51"                              \* 51
       /\ executor' = [executor EXCEPT !.running = FALSE]
       /\ ex_pc' = [ex_pc EXCEPT !.owner = "stop52"]
       /\ ExStep("store", Owner)
    \/ /\ ex_pc.owner = "stop52"                              \* 52
       /\ executor' = [executor EXCEPT !.waiting = { }]
       /\ ex_pc' = [ex_pc EXCEPT !.owner = "join"]
       /\ ExStep("notify_all", Owner)
    \/ /\ ex_pc.owner = "join"                                \* 54-58
       /\ ex_pc.joined < NumThreads
       /\ ex_pc.workers[ex_pc.joined + 1] = "exited"
       /\ ex_pc' = [ex_pc EXCEPT !.joined = @ + 1]
       /\ ExStep("join", Owner)
       /\ UNCHANGED executor
    \/ /\ ex_pc.owner = "join"                                \* 60
       /\ ex_pc.joined = NumThreads
       /\ ex_pc' = [ex_pc EXCEPT !.owner = "clear",
                                 !.workers = [w \in WorkerIds |-> "none"]]
       /\ ExStep("workers.clear", Owner)
       /\ UNCHANGED executor
    \/ /\ ex_pc.owner = "clear"                               \* 63-66
       /\ executor.queueMutex = NoThread
       /\ executor' = [executor EXCEPT !.taskQueue = 0]
       /\ ex_pc' = [ex_pc EXCEPT !.owner = "idle"]
       /\ ExStep("returned", Owner)

\* Executor::submit (executor.hpp 70-80), a step at a time
ExecutorSubmit ==
    \/ /\ ex_pc.submitter = "idle"                            \* 71-73
       /\ ex_last.submitted < MaxSubmits
       /\ ex_pc' = [ex_pc EXCEPT !.submitter = IF executor.running THEN "push" ELSE "idle"]
       /\ ExStep("submit", Submitter)
       /\ UNCHANGED executor
    \/ /\ ex_pc.submitter = "push"                            \* 75-78
       /\ executor.queueMutex = NoThread
       /\ executor' = [executor EXCEPT !.taskQueue = @ + 1]
       /\ ex_pc' = [ex_pc EXCEPT !.submitter = "notify"]
       /\ ExStep("push", Submitter)
    \/ /\ ex_pc.submitter = "notify"                          \* 79
       /\ \/ /\ executor.waiting = { }
             /\ UNCHANGED executor
          \/ \E w \in executor.waiting :
                executor' = [executor EXCEPT !.waiting = @ \ { w }]
       /\ ex_pc' = [ex_pc EXCEPT !.submitter = "idle"]
       /\ ExStep("notify_one", Submitter)

\* Executor::workerLoop (executor.hpp 93-124) of worker w, a step at a time
workerLoop(w) ==
    LET at(pc) == ex_pc.workers[w] = pc
        goto(pc) == ex_pc' = [ex_pc EXCEPT !.workers[w] = pc]
    IN  \/ /\ at("loop")                                      \* 94
           /\ goto(IF executor.running THEN "lock" ELSE "exited")
           /\ ExStep("loop", w)
           /\ UNCHANGED executor
        \/ /\ at("lock")                                      \* 98
           /\ executor.queueMutex = NoThread
           /\ executor' = [executor EXCEPT !.queueMutex = w]
           /\ goto("predicate")
           /\ ExStep("lock", w)
        \/ /\ at("predicate")                                 \* 99-100, the predicate
           /\ goto(IF executor.taskQueue > 0 \/ ~executor.running THEN "check" ELSE "wait")
           /\ ExStep("predicate", w)
           /\ UNCHANGED executor
        \/ /\ at("wait")                                      \* 99, wait(lock): unlock and block
           /\ executor' = [executor EXCEPT !.queueMutex = NoThread, !.waiting = @ \cup { w }]
           /\ goto("blocked")
           /\ ExStep("wait", w)
        \/ /\ at("blocked")                                   \* 99, woken: lock again
           /\ w \notin executor.waiting
           /\ executor.queueMutex = NoThread
           /\ executor' = [executor EXCEPT !.queueMutex = w]
           /\ goto("predicate")
           /\ ExStep("woken", w)
        \/ /\ at("check")                                     \* 102-104
           /\ executor' = [executor EXCEPT
                             !.queueMutex = IF executor.running THEN @ ELSE NoThread]
           /\ goto(IF executor.running THEN "take" ELSE "exited")
           /\ ExStep("check", w)
        \/ /\ at("take")                                      \* 106-112
           /\ executor' = [executor EXCEPT
                             !.queueMutex = NoThread,
                             !.taskQueue = IF @ > 0 THEN @ - 1 ELSE @]
           /\ goto(IF executor.taskQueue > 0 THEN "task" ELSE "loop")
           /\ ExStep("take", w)
        \/ /\ at("task")                                      \* 115-122
           /\ goto("loop")
           /\ ExStep("task", w)
           /\ UNCHANGED executor

\* a thread blocked in condition.wait may wake without a notification
SpuriousWakeup(w) ==
    /\ w \in executor.waiting
    /\ executor' = [executor EXCEPT !.waiting = @ \ { w }]
    /\ ExStep("spurious", w)
    /\ UNCHANGED ex_pc

InitExecutor ==
    /\ executor = [running |-> FALSE, taskQueue |-> 0, queueMutex |-> NoThread,
                   waiting |-> { }]
    /\ ex_pc = [owner |-> "idle", submitter |-> "idle", joined |-> 0,
                workers |-> [w \in WorkerIds |-> "none"]]
    /\ ex_last = [op |-> "init", thread |-> NoThread, submitted |-> 0, runs |-> 0]

(***************************************************************************)
(* The specifications.  Each one moves the variables of one part of the    *)
(* program and leaves the others at their initial values.                  *)
(***************************************************************************)
vars == << coreVars, loopVars, timerVars, httpVars, frameVars, wsVars, connVars, upVars, clientVars, hcVars, seqVars, loopTimerVars, notifyVars, idVars, clientHttpVars, lifeVars, executorVars >>

Init == InitCore /\ InitLoop /\ InitTimers /\ InitHttp /\ InitFrame /\ InitWs /\ InitConn /\ InitUpgrade /\ InitClient /\ InitHc /\ InitSeq /\ InitLoopTimers /\ InitNotify /\ InitIds /\ InitHttpClients /\ InitLife /\ InitExecutor

OutsideCore == UNCHANGED << loopVars, timerVars, httpVars, frameVars, wsVars, connVars, upVars, clientVars, hcVars, seqVars, loopTimerVars, notifyVars, idVars, clientHttpVars, lifeVars, executorVars >>
OutsideLoop == UNCHANGED << timerVars, httpVars, frameVars, wsVars, connVars, upVars, clientVars, hcVars, seqVars, loopTimerVars, notifyVars, idVars, clientHttpVars, lifeVars, executorVars >>
OutsideTimers == UNCHANGED << coreButLast, loopVars, httpVars, frameVars, wsVars, connVars, upVars, clientVars, hcVars, seqVars, loopTimerVars, notifyVars, idVars, clientHttpVars, lifeVars, executorVars >>
OutsideHttp == UNCHANGED << coreVars, loopVars, timerVars, frameVars, wsVars, connVars, upVars, clientVars, hcVars, seqVars, loopTimerVars, notifyVars, idVars, clientHttpVars, lifeVars, executorVars >>
OutsideFrame == UNCHANGED << coreVars, loopVars, timerVars, httpVars, wsVars, connVars, upVars, clientVars, hcVars, seqVars, loopTimerVars, notifyVars, idVars, clientHttpVars, lifeVars, executorVars >>
OutsideWs == UNCHANGED << coreVars, loopVars, timerVars, httpVars, frameVars, connVars, upVars, clientVars, hcVars, seqVars, loopTimerVars, notifyVars, idVars, clientHttpVars, lifeVars, executorVars >>
OutsideConn == UNCHANGED << coreVars, loopVars, timerVars, httpVars, frameVars, wsVars, upVars, clientVars, hcVars, seqVars, loopTimerVars, notifyVars, idVars, clientHttpVars, lifeVars, executorVars >>
OutsideUpgrade == UNCHANGED << coreVars, loopVars, timerVars, httpVars, frameVars, wsVars, connVars, clientVars, hcVars, seqVars, loopTimerVars, notifyVars, idVars, clientHttpVars, lifeVars, executorVars >>
OutsideClient == UNCHANGED << coreVars, loopVars, timerVars, httpVars, frameVars, wsVars, connVars, upVars, hcVars, seqVars, loopTimerVars, notifyVars, idVars, clientHttpVars, lifeVars, executorVars >>
OutsideHc == UNCHANGED << coreVars, loopVars, timerVars, httpVars, frameVars, wsVars, connVars, upVars, clientVars, seqVars, loopTimerVars, notifyVars, idVars, clientHttpVars, lifeVars, executorVars >>
OutsideSeq == UNCHANGED << coreVars, loopVars, timerVars, httpVars, frameVars, wsVars, connVars, upVars, clientVars, hcVars, loopTimerVars, notifyVars, idVars, clientHttpVars, lifeVars, executorVars >>
OutsideLoopTimers == UNCHANGED << coreVars, loopVars, timerVars, httpVars, frameVars, wsVars, connVars, upVars, clientVars, hcVars, seqVars, notifyVars, idVars, clientHttpVars, lifeVars, executorVars >>
OutsideNotify == UNCHANGED << coreVars, loopVars, timerVars, httpVars, frameVars, wsVars, connVars, upVars, clientVars, hcVars, seqVars, loopTimerVars, idVars, clientHttpVars, lifeVars, executorVars >>
OutsideIds == UNCHANGED << coreVars, loopVars, timerVars, httpVars, frameVars, wsVars, connVars, upVars, clientVars, hcVars, seqVars, loopTimerVars, notifyVars, clientHttpVars, lifeVars, executorVars >>
OutsideHttpClients == UNCHANGED << coreVars, loopVars, timerVars, httpVars, frameVars, wsVars, connVars, upVars, clientVars, hcVars, seqVars, loopTimerVars, notifyVars, idVars, lifeVars, executorVars >>
OutsideLife == UNCHANGED << coreVars, loopVars, timerVars, httpVars, frameVars, wsVars, connVars, upVars, clientVars, hcVars, seqVars, loopTimerVars, notifyVars, idVars, clientHttpVars, executorVars >>
OutsideExecutor == UNCHANGED << coreVars, loopVars, timerVars, httpVars, frameVars, wsVars, connVars, upVars, clientVars, hcVars, seqVars, loopTimerVars, notifyVars, idVars, clientHttpVars, lifeVars >>

\* the sockets-and-buffers specification: an application that creates
\* sockets, exchanges buffers with them, polls, and removes sockets
Next ==
    \/ Tick({"data", "eof"}) /\ OutsideCore
    \/ CreateSocket("ok") /\ OutsideCore
    \/ \E d \in AppData : AppGetBuffer(d) /\ OutsideCore
    \/ \E b \in BufIds : AppRelease(b) /\ OutsideCore
    \/ \E s \in IDs, b \in BufIds : Write(s, b) /\ OutsideCore
    \/ \E s \in IDs : Read(s) /\ OutsideCore
    \/ \E s \in IDs : ClearReadBuffer(s) /\ OutsideCore
    \/ \E s \in IDs, which \in {"read", "write"} : GetQueueBuffer(s, which) /\ OutsideCore
    \/ \E s \in IDs : RemoveSocket(s) /\ OutsideCore
    \/ \E id \in IDs : RemovePollable(id) /\ OutsideCore

Spec == Init /\ [][Next]_vars

\* the registry specification: listeners and sockets are created, accepted,
\* closed by their peers, deregistered and removed
NextReg ==
    \/ Tick({"eof"}) /\ OutsideCore
    \/ CreateListener("ok") /\ OutsideCore
    \/ CreateSocket("ok") /\ OutsideCore
    \/ \E s \in IDs : RemoveSocket(s) /\ OutsideCore
    \/ RemoveClosedSockets /\ OutsideCore
    \/ \E id \in IDs : RemovePollable(id) /\ OutsideCore

SpecReg == Init /\ [][NextReg]_vars

\* the managers' specification: sockets and listeners are taken out of
\* their managers while the poller goes on polling them
NextMgr ==
    \/ Tick({"data", "eof"}) /\ OutsideCore
    \/ CreateListener("ok") /\ OutsideCore
    \/ CreateSocket("ok") /\ OutsideCore
    \/ \E s \in IDs : RemoveSocket(s) /\ OutsideCore
    \/ \E l \in IDs : RemoveListener(l) /\ OutsideCore

SpecMgr == Init /\ [][NextMgr]_vars

\* the writers' specification: the application enqueues buffers on open
\* sockets and keeps calling poll; the peers are writable again and again
NextWrite ==
    \/ CreateSocket("ok") /\ OutsideCore
    \/ \E d \in AppData : AppGetBuffer(d) /\ OutsideCore
    \/ \E s \in IDs, b \in BufIds : Write(s, b) /\ OutsideCore
    \/ TickWrite /\ OutsideCore
    \/ TickWritable /\ OutsideCore

SpecWrite == Init /\ [][NextWrite]_vars /\ WF_vars(TickWritable /\ OutsideCore)

\* the callback-layer specification: Poller::start dispatching to
\* pollables whose callbacks may remove pollables
NextLoop ==
    \/ \E kind \in {"socket", "listener"} : PollerCreate(kind) /\ OutsideLoop
    \/ \E s \in IDs : OldWrite(s) /\ OutsideLoop
    \/ \E id \in IDs : RemoveIdle(id) /\ OutsideLoop
    \/ LoopPoll /\ OutsideLoop
    \/ \E got \in BOOLEAN, cb \in Callbacks : Dispatch(got, cb) /\ OutsideLoop

SpecLoop == Init /\ [][NextLoop]_vars

\* the timer specification
NextTimers ==
    \/ \E ms \in 1 .. MaxDelay, repeat \in BOOLEAN :
          CreateTimer(ms, repeat) /\ OutsideTimers
    \/ \E id \in TimerIDs : ResetTimer(id) /\ OutsideTimers
    \/ \E id \in TimerIDs : DestroyTimer(id) /\ OutsideTimers
    \/ \E dt \in 0 .. MaxTime : PollTimers(dt) /\ OutsideTimers
    \/ \E dt \in 1 .. MaxTime : Elapse(dt) /\ OutsideTimers

SpecTimers == Init /\ [][NextTimers]_vars

\* the read specification: sockets whose reads end in every way ::read can
ReadOutcomes == { "data", "full", "eof", "again", "fail" }
MaxReadChunks == 2

\* a tick of that specification, for the readiness report rev
ReadTick(rev) == TickWith(rev, MaxReadChunks, PeerBytes)

NextRead ==
    \/ \E rev \in ReadinessReports(pollEntries, ReadOutcomes, MaxReady) :
          ReadTick(rev) /\ OutsideCore
    \/ CreateSocket("ok") /\ OutsideCore
    \/ \E s \in IDs : Read(s) /\ OutsideCore
    \/ \E b \in BufIds : AppRelease(b) /\ OutsideCore

SpecRead == Init /\ [][NextRead]_vars

\* the setup specification: listeners and sockets whose start may fail
NextSetup ==
    \/ \E res \in StartResults : CreateListener(res) /\ OutsideCore
    \/ \E res \in StartResults : CreateSocket(res) /\ OutsideCore
    \/ Tick({"eof"}) /\ OutsideCore
    \/ RemoveClosedSockets /\ OutsideCore
    \/ \E id \in IDs : RemovePollable(id) /\ OutsideCore

SpecSetup == Init /\ [][NextSetup]_vars

\* the HTTP specification: requests reach an HttpServer in chunks
NextHttp ==
    \/ \E req \in HttpRequests : HttpConnect(req) /\ OutsideHttp
    \/ \E k \in 1 .. Len(incoming) : HttpData(k) /\ OutsideHttp
    \/ HttpClose /\ OutsideHttp

SpecHttp == Init /\ [][NextHttp]_vars

\* the frame specification: one side builds a frame, the other parses it
NextFrame ==
    \/ \E opcode \in Opcodes : \E data \in Payloads(opcode) :
          ServerBuild(opcode, data) /\ OutsideFrame
    \/ \E opcode \in Opcodes : \E data \in Payloads(opcode) : \E key \in Keys(data) :
          ClientBuild(opcode, data, key) /\ OutsideFrame
    \/ ClientParse /\ OutsideFrame
    \/ ServerParse /\ OutsideFrame
    \/ FrameDone /\ OutsideFrame

SpecFrame == Init /\ [][NextFrame]_vars

\* the WebSocket connection specification: a peer sends a text in fragments
NextWs ==
    \/ \E ps \in Fragmentations, j \in 0 .. MaxFragments - 1 :
          j < Len(ps) /\ WsOpen(ps, j) /\ OutsideWs
    \/ WsData /\ OutsideWs
    \/ WsClose /\ OutsideWs

SpecWs == Init /\ [][NextWs]_vars

\* the frame-stream specification: a peer sends up to MaxFrames frames and
\* the connection's socket reads them in pieces of any size
NextConn ==
    \/ \E fs \in FrameStreams : StreamOpen(fs) /\ OutsideConn
    \/ \E k \in 1 .. Len(peer_stream) : StreamData(k) /\ OutsideConn
    \/ \E payload \in ClosePayloads \ { << >> } : AppClose(payload) /\ OutsideConn
    \/ StreamClose /\ OutsideConn

SpecConn == Init /\ [][NextConn]_vars

\* the handshake specification of the server: one request for each connection
NextUpgrade ==
    \/ \E req \in UpgradeRequests : UpgradeData(req) /\ OutsideUpgrade
    \/ UpgradeClose /\ OutsideUpgrade

SpecUpgrade == Init /\ [][NextUpgrade]_vars

\* the handshake specification of the client
NextClient ==
    \/ \E resp \in HandshakeResponses, ps \in { << >>, << << 104 >> >> } :
          ClientConnect(resp, ps) /\ OutsideClient
    \/ \E k \in 1 .. Len(cl_stream) : ClientData(k) /\ OutsideClient
    \/ ClientClose /\ OutsideClient

SpecClient == Init /\ [][NextClient]_vars

\* the specification of an HTTP connection with several requests
NextHc ==
    \/ HcConnect /\ OutsideHc
    \/ \E text \in RequestTexts : HcRequest(text) /\ OutsideHc
    \/ HcClose /\ OutsideHc

SpecHc == Init /\ [][NextHc]_vars

\* The task sequence: tasks are added, the sequence is started, paused,
\* resumed and stopped, the clock moves and the poller runs expired timers.
NextSeq ==
    \/ SeqAddTask /\ OutsideSeq
    \/ SeqAddWait /\ OutsideSeq
    \/ SeqAddWaitCondition /\ OutsideSeq
    \/ SeqStart /\ OutsideSeq
    \/ SeqStartAgain /\ OutsideSeq
    \/ SeqStop /\ OutsideSeq
    \/ SeqPause /\ OutsideSeq
    \/ SeqResume /\ OutsideSeq
    \/ \E condition \in BOOLEAN, adds \in BOOLEAN : SeqTimers(condition, adds) /\ OutsideSeq
    \/ SeqCleanup /\ OutsideSeq
    \/ \E dt \in 1 .. MaxAdvance : SeqElapse(dt) /\ OutsideSeq

SpecSeq == Init /\ [][NextSeq]_vars

\* The timers of the poller's loop: timeouts and intervals are set and
\* cleared while the loop goes round.
NextLoopTimers ==
    \/ \E ms \in 0 .. MaxWait : LoopSetTimeout(ms) /\ OutsideLoopTimers
    \/ \E ms \in 0 .. MaxWait : LoopSetInterval(ms) /\ OutsideLoopTimers
    \/ \E timer_id \in 1 .. MaxTimerIds : LoopClearTimeout(timer_id) /\ OutsideLoopTimers
    \/ \E timer_id \in 1 .. MaxTimerIds : LoopClearInterval(timer_id) /\ OutsideLoopTimers
    \/ LoopTimers /\ OutsideLoopTimers
    \/ \E dt \in 0 .. MaxWait, event \in BOOLEAN : LoopPolled(dt, event) /\ OutsideLoopTimers

SpecLoopTimers == Init /\ [][NextLoopTimers]_vars

\* The notification pipe: the loop of start() and notify() from both threads.
NextNotify ==
    \/ \E created \in BOOLEAN : NpStart(created) /\ OutsideNotify
    \/ \E thread \in Threads : NpNotify(thread) /\ OutsideNotify
    \/ NpTop /\ OutsideNotify
    \/ NpBlock /\ OutsideNotify
    \/ \E ready \in BOOLEAN, interrupted \in BOOLEAN : NpReturn(ready, interrupted) /\ OutsideNotify
    \/ NpDrain /\ OutsideNotify
    \/ NpDispatch /\ OutsideNotify

SpecNotify == Init /\ [][NextNotify]_vars

\* The ids of the pollables: creation and removal of sockets and listeners
\* over the whole range of the counter.
NextIds ==
    \/ \E type \in PollableTypes : IdCreate(type) /\ OutsideIds
    \/ \E id \in Alive(registry) : IdRemove(id) /\ OutsideIds
    \/ IdChurn /\ OutsideIds

SpecIds == Init /\ [][NextIds]_vars

\* Two HttpClients send requests and receive the responses in pieces.
NextHttpClients ==
    \/ \E c \in HttpClients : HttpClientSend(c) /\ OutsideHttpClients
    \/ \E c \in HttpClients, k \in 1 .. 3 : HttpClientData(c, k) /\ OutsideHttpClients
    \/ \E c \in HttpClients : HttpClientLost(c) /\ OutsideHttpClients

SpecHttpClients == Init /\ [][NextHttpClients]_vars

\* The life of a connection: the peer's request and frames arrive, the
\* application sends and closes.
NextLife ==
    \/ \E req \in { ValidUpgrade, PlainRequest } : LifeConnect(req) /\ OutsideLife
    \/ \E f \in LifeFrames : LifeData(f) /\ OutsideLife
    \/ LifeSendText /\ OutsideLife
    \/ \E payload \in ClosePayloads \ { << >> } : LifeClose(payload) /\ OutsideLife

SpecLife == Init /\ [][NextLife]_vars

\* The executor: the owner starts and stops it, a thread submits tasks, the
\* workers run.  Every thread that can take a step takes one in the end; a
\* wakeup without a notification may never come.
NextExecutor ==
    \/ ExecutorStart /\ OutsideExecutor
    \/ ExecutorStop /\ OutsideExecutor
    \/ ExecutorSubmit /\ OutsideExecutor
    \/ \E w \in WorkerIds : workerLoop(w) /\ OutsideExecutor
    \/ \E w \in WorkerIds : SpuriousWakeup(w) /\ OutsideExecutor

SpecExecutor ==
    /\ Init /\ [][NextExecutor]_vars
    /\ WF_vars(ex_pc.owner \in Stopping /\ ExecutorStop /\ OutsideExecutor)
    /\ WF_vars(ex_pc.submitter # "idle" /\ ExecutorSubmit /\ OutsideExecutor)
    /\ \A w \in WorkerIds : WF_vars(workerLoop(w) /\ OutsideExecutor)

\* The same without stop(): a started sequence is left to run.
NextSeqRun ==
    \/ SeqAddTask /\ OutsideSeq
    \/ SeqAddWait /\ OutsideSeq
    \/ SeqAddWaitCondition /\ OutsideSeq
    \/ SeqStart /\ OutsideSeq
    \/ SeqStartAgain /\ OutsideSeq
    \/ SeqPause /\ OutsideSeq
    \/ SeqResume /\ OutsideSeq
    \/ \E condition \in BOOLEAN, adds \in BOOLEAN : SeqTimers(condition, adds) /\ OutsideSeq
    \/ SeqCleanup /\ OutsideSeq
    \/ \E dt \in 1 .. MaxAdvance : SeqElapse(dt) /\ OutsideSeq

\* The poller's loop keeps running (poller.cpp 92-94), the clock keeps moving,
\* and a paused sequence is resumed.
SpecSeqLive ==
    /\ Init /\ [][NextSeqRun]_vars
    /\ WF_vars(\E condition \in BOOLEAN, adds \in BOOLEAN : SeqTimers(condition, adds) /\ OutsideSeq)
    /\ WF_vars(\E dt \in 1 .. MaxAdvance : SeqElapse(dt) /\ OutsideSeq)
    /\ WF_vars(SeqResume /\ OutsideSeq)

(***************************************************************************)
(* Properties of the reactor layer.                                        *)
(***************************************************************************)
\* the sockets registered with the SocketManager that have not been destroyed
Live == sockets_ \cap sockets

Owners(b) ==
    Count(free_buffers_, b) + (IF b \in held THEN 1 ELSE 0)
      + SumOver(IDs, pending_read_buffers, b) + SumOver(IDs, pending_write_buffers, b)

\* the buffers that are not on the free list
InFlight == { b \in BufIds : b \in held \/ \E s \in IDs :
                Count(pending_read_buffers[s], b) + Count(pending_write_buffers[s], b) > 0 }

\* C2: after any sequence of acquisitions, releases, writes, reads, drains
\* and destructions, every allocated buffer is on the free list exactly once
\* or has exactly one owner, the buffers in flight and the free ones add up
\* to the buffers ever allocated, and a destroyed socket holds no buffer.
C2_BufferConservation ==
    ~touched =>
        /\ \A b \in BufIds : Owners(b) = (IF b <= all_buffers_ THEN 1 ELSE 0)
        /\ Cardinality(InFlight) + Len(free_buffers_) = all_buffers_
        /\ \A id \in IDs \ sockets :
              pending_read_buffers[id] = << >> /\ pending_write_buffers[id] = << >>

\* a socket has just been destroyed and every buffer ever allocated is
\* back on the free list
C2_Witness ==
    /\ last.op = "removePollable" /\ last.was /\ ~touched
    /\ all_buffers_ = MaxBuffers
    /\ Len(free_buffers_) = all_buffers_

\* C3: over a poll, the bytes that leave the pending-write queue of a socket
\* are exactly the bytes the kernel accepted, in order: a buffer is popped
\* and released only when all of its bytes have been written.
C3_PartialWriteKeepsBytes ==
    [][ last'.op = "poll" =>
          \A s \in sockets \cap sockets_ :
              Flatten(pending_write_buffers[s], data_)
                = sent'[s] \o Flatten(pending_write_buffers'[s], data_') ]_vars

\* C8: a removePollable(id) leaves id unregistered and destroyed, changes the
\* registration of no other pollable, and changes nothing at all when id
\* was not registered any more.
C8_RemoveIdempotent ==
    [][ last'.op = "removePollable" =>
          /\ pollEntries' = pollEntries \ { last'.id }
          /\ sockets' = sockets \ { last'.id }
          /\ listeners' = listeners \ { last'.id }
          /\ \A i \in IDs \ { last'.id } :
                /\ pending_read_buffers'[i] = pending_read_buffers[i]
                /\ pending_write_buffers'[i] = pending_write_buffers[i]
          /\ ~last'.was =>
                UNCHANGED << next_id, sockets, listeners, file_descriptor, pollEntries,
                             pollout_pending, sockets_, listeners_,
                             pending_read_buffers, pending_write_buffers, data_,
                             all_buffers_, free_buffers_, held, events, sent,
                             touched >> ]_vars

\* removePollable was called for a pollable that had been created and was
\* already removed, while another pollable is registered
C8_Witness ==
    /\ last.op = "removePollable" /\ ~last.was
    /\ last.id < next_id
    /\ pollEntries # {}

\* C10: the poll that follows removeClosedSockets(events) no longer polls
\* any socket named in a SOCKET_CLOSED or SOCKET_ERROR event of that list,
\* and none of them is registered with the SocketManager.
C10_ClosedSocketsLeaveReactor ==
    [][ (last.op = "removeClosedSockets" /\ last'.op = "poll") =>
          ClosedIn(events) \cap (sockets_' \cup pollEntries') = {} ]_vars


\* C9: while the events of a tick are dispatched every pollable the tick
\* polled is still alive (a removePollable made by a callback takes effect
\* at the end of the tick), and the dispatch loop never touches a destroyed
\* pollable.
C9_RemoveDeferredToEndOfTick ==
    /\ phase = "dispatch" =>
          \A k \in DOMAIN pollFds : pollFds[k].id \in sockets \cup listeners
    /\ ~touched

\* C4: the expired flag of a timer goes from true to false (or the timer
\* goes away) only in a resetTimer or destroyTimer of that timer: no poll
\* turns an expired flag back to false.
C4_ExpiryLevelTriggered ==
    [][ \A id \in TimerIDs :
          (isTimerExpired(timers, id) /\ ~isTimerExpired(timers', id)) =>
              (last'.op \in {"resetTimer", "destroyTimer"} /\ last'.id = id) ]_vars

\* a poll has run over a timer that was already expired, and it still is
C4_Witness ==
    /\ last.op = "pollTimers" /\ last.was
    /\ \E id \in TimerIDs : isTimerExpired(timers, id) /\ timers[id].repeat

(***************************************************************************)
(* Properties of the HTTP server and of the WebSocket codec.               *)
(***************************************************************************)
\* C5: a request that reaches the server in chunks invokes the matching
\* route handler exactly once, with its method, path and body, when it is
\* complete; while a prefix is still incomplete no handler has been invoked
\* and no response has been written.
C5_HandlerOnceForChunkedRequest ==
    /\ incoming # << >> => (handled = << >> /\ responses = << >>)
    /\ (http_request # NoRequest /\ incoming = << >>
          /\ findRoute(http_request.path, http_request.method) \in routes) =>
            (handled = << http_request >> /\ Len(responses) = 1)

\* C6: when the last fragment of a text has arrived, onMessage has been
\* given exactly one message, the concatenation of the fragment payloads;
\* before that it has been given nothing; and every PING that arrived in
\* between has been answered.
C6_FragmentsAssembled ==
    ws_status = "OPEN" =>
        /\ ws_script # << >> => onMessage = << >>
        /\ ws_script = << >> => onMessage = << ws_message >>
        /\ Len(written) = ws_pings

\* C7: a frame built by the server and parsed by the client, or built by
\* the client with any masking key and parsed by the server, decodes to the
\* opcode, fin and payload it was built from.
C7_FrameRoundTrip ==
    direction \in { "atClient", "atServer" } =>
        /\ frame # NoFrame
        /\ [opcode |-> frame.opcode, fin |-> frame.fin, payload |-> frame.payload] = original

\* the server has parsed a masked frame with a 16-bit extended length
C7_Witness ==
    /\ direction = "atServer"
    /\ frame.masked
    /\ Len(frame.payload) = 300
    /\ Len(wire) = Len(frame.payload) + 8

(***************************************************************************)
(* Properties of the read path.                                            *)
(***************************************************************************)
\* the types of the events of list evs that name socket s, in order
TypesOf(s, evs) ==
    LET es == SelectSeq(evs, LAMBDA ev : ev.socket = s)
    IN  [k \in 1 .. Len(es) |-> es[k].type]

\* C11: in a tick that finds socket s readable, a read of 0 bytes gives
\* exactly a SOCKET_CLOSED event for s, a read that would block gives no
\* event for s, and a read failing otherwise gives a SOCKET_ERROR event.
C11_ReadOutcomeClassified ==
    [][ \A rev \in ReadinessReports(pollEntries, ReadOutcomes, MaxReady) :
          \A s \in Live :
            (ReadTick(rev) /\ ~rev[s].err /\ rev[s].rd # "none") =>
                /\ rev[s].rd = "eof" => TypesOf(s, events') = << "SOCKET_CLOSED" >>
                /\ rev[s].rd = "again" => TypesOf(s, events') = << >>
                /\ rev[s].rd = "fail" => TypesOf(s, events') = << "SOCKET_ERROR" >> ]_vars

\* the bytes ::read gave in a tick to a socket whose report is r
BytesRead(s, r) ==
    IF r.err THEN << >>
    ELSE IF r.rd = "data" THEN << Chunk(1, PeerByte(s)) >>
    ELSE IF r.rd = "full" THEN << Chunk(ReadThreshold, PeerByte(s)) >>
    ELSE << >>

\* the buffers of a queue
BuffersOf(q) == { q[k] : k \in 1 .. Len(q) }

\* C12: a tick gives a socket at most one SOCKET_DATA event and appends the
\* bytes it read to the socket's read queue, after the bytes not yet taken,
\* nothing lost and nothing twice; Socket::read hands every buffer of the
\* queue to the caller, contents untouched, and leaves the queue empty, the
\* buffers being in no queue and not free afterwards.
C12_DataEventAndBuffers ==
    [][ /\ \A rev \in ReadinessReports(pollEntries, ReadOutcomes, MaxReady) :
            \A s \in Live :
              ReadTick(rev) =>
                /\ Flatten(pending_read_buffers'[s], data_')
                     = Flatten(pending_read_buffers[s], data_) \o BytesRead(s, rev[s])
                /\ TypesOf(s, events') =
                     (IF BytesRead(s, rev[s]) # << >> THEN << "SOCKET_DATA" >>
                      ELSE TypesOf(s, events'))
                /\ Len(SelectSeq(TypesOf(s, events'), LAMBDA t : t = "SOCKET_DATA")) <= 1
        /\ \A s \in Live :
            Read(s) =>
              /\ pending_read_buffers'[s] = << >>
              /\ BuffersOf(pending_read_buffers[s]) \subseteq held'
              /\ \A b \in BuffersOf(pending_read_buffers[s]) :
                    /\ data_'[b] = data_[b]
                    /\ Owners(b)' = 1 ]_vars

\* the application has taken two buffers from a socket, a full one and the
\* one read after it
C12_Witness ==
    /\ last = Used
    /\ \E s \in Live :
          /\ pending_read_buffers[s] = << >>
          /\ \E b, c \in held :
                /\ data_[b] = << Chunk(ReadThreshold, PeerByte(s)) >>
                /\ data_[c] = << Chunk(1, PeerByte(s)), Chunk(1, PeerByte(s)) >>

ReadBytesFromOwnPeer ==
    \A s \in Live :
        LET d == Flatten(pending_read_buffers[s], data_)
        IN  \A k \in 1 .. Len(d) : d[k].v = PeerByte(s)

\* C14: with several connections open, after every tick the bytes waiting
\* in the read queue of a socket are bytes of that socket's peer, and the
\* bytes the tick sent on a connection are exactly the bytes that left
\* that connection's own write queue.
C14_NoCrossDelivery ==
    [][ last'.op = "poll" =>
          /\ ReadBytesFromOwnPeer'
          /\ \A s \in sockets \cap sockets_ :
                \E k \in 0 .. Len(pending_write_buffers[s]) :
                    /\ pending_write_buffers'[s] = SubSeq(pending_write_buffers[s], k + 1,
                                                          Len(pending_write_buffers[s]))
                    /\ sent'[s] = Flatten(SubSeq(pending_write_buffers[s], 1, k), data_) ]_vars

(***************************************************************************)
(* Properties of the setup of listeners and sockets.                       *)
(***************************************************************************)
\* C15: when bind or listen fails in createListener, or connect fails in
\* createSocket, the call returns a failure and the listener or socket it
\* made is registered neither with the reactor nor with a manager.
C15_SetupErrorSurfaced ==
    (last.op \in { "createListener", "createSocket" }
       /\ file_descriptor[next_id - 1] = "stale") =>
        /\ ~last.was
        /\ (next_id - 1) \notin pollEntries \cup sockets_ \cup listeners_

(***************************************************************************)
(* Properties of the timers.                                               *)
(***************************************************************************)
\* C16: a timer is not expired right after its creation; a one-shot timer
\* is not expired while the clock is before its expiry; a poll at time t
\* marks expired exactly the timers whose expiry is at or before t, the
\* other flags staying as they are; a reset leaves the timer not expired.
C16_OneShotExpiry ==
    [][ /\ last'.op = "createTimer" => ~isTimerExpired(timers', last'.id)
        /\ \A id \in TimerIDs :
              (timers'[id].present /\ ~timers'[id].repeat /\ now' < timers'[id].expiry)
                  => ~isTimerExpired(timers', id)
        /\ last'.op = "pollTimers" =>
              \A id \in TimerIDs :
                  timers[id].present =>
                      (isTimerExpired(timers', id) <=>
                          (isTimerExpired(timers, id) \/ timers[id].expiry <= now'))
        /\ last'.op = "resetTimer" => ~isTimerExpired(timers', last'.id) ]_vars

\* a poll has found one of two one-shot timers expired and the other not
C16_Witness ==
    /\ last.op = "pollTimers"
    /\ \E a, b \in TimerIDs :
          /\ timers[a].present /\ ~timers[a].repeat /\ timers[a].expired
          /\ timers[b].present /\ ~timers[b].repeat /\ ~timers[b].expired
          /\ timers[a].expiry <= now /\ now < timers[b].expiry

\* C17: a repeating timer that has expired stays expired until it is reset
\* (or destroyed); a reset at time t clears the flag and sets the expiry to
\* t + interval, which is later than t; between that reset and the poll
\* that marks it, nothing changes the timer, and a poll marks it exactly
\* when the time of the poll has reached its expiry.
C17_RepeatingFromReset ==
    [][ \A id \in TimerIDs :
          (timers[id].present /\ timers[id].repeat) =>
              LET onId == last'.op \in {"resetTimer", "destroyTimer"} /\ last'.id = id
              IN  /\ (last'.op = "resetTimer" /\ last'.id = id) =>
                        /\ ~isTimerExpired(timers', id)
                        /\ timers'[id].expiry = now' + timers[id].interval
                        /\ now' < timers'[id].expiry
                  /\ (isTimerExpired(timers, id) /\ ~onId) => isTimerExpired(timers', id)
                  /\ (~isTimerExpired(timers, id) /\ last'.op = "pollTimers") =>
                        /\ isTimerExpired(timers', id) <=> timers[id].expiry <= now'
                        /\ ~isTimerExpired(timers', id) => timers'[id] = timers[id]
                  /\ (~isTimerExpired(timers, id) /\ ~onId /\ last'.op # "pollTimers") =>
                        timers'[id] = timers[id] ]_vars

\* an expired repeating timer has been reset after its interval had gone by
\* more than once
C17_Witness ==
    /\ last.op = "resetTimer" /\ last.was
    /\ timers[last.id].present /\ timers[last.id].repeat
    /\ ~isTimerExpired(timers, last.id)
    /\ timers[last.id].interval = 1 /\ now = MaxTime
    /\ timers[last.id].expiry = now + 1

\* C18: for a timer id that is unknown (never given out) or destroyed,
\* isTimerExpired is false, and a resetTimer or destroyTimer of it leaves
\* every timer as it was, however often it is called; a resetTimer or
\* destroyTimer of any id leaves all the other timers as they were.
C18_UnknownTimerHarmless ==
    [][ \A id \in TimerIDs :
          /\ ~timers[id].present =>
                /\ ~isTimerExpired(timers, id)
                /\ (last'.op \in {"resetTimer", "destroyTimer"} /\ last'.id = id) =>
                      timers' = timers
          /\ (last'.op \in {"resetTimer", "destroyTimer"} /\ last'.id = id) =>
                \A other \in TimerIDs \ {id} : timers'[other] = timers[other] ]_vars

\* a destroyed timer has been reset while another timer was expired
C18_Witness ==
    /\ last.op = "resetTimer" /\ last.id < next_timer_id
    /\ ~timers[last.id].present
    /\ \E other \in TimerIDs : isTimerExpired(timers, other)

(***************************************************************************)
(* Properties of the connection that reads a stream of frames.             *)
(***************************************************************************)
\* the number of bytes of the stream the socket has read
Received == Len(WireBytes(peer_frames)) - Len(peer_stream)

\* the number of frames of the stream that lie whole in its first n bytes
Complete(n) ==
    Cardinality({ i \in 1 .. Len(peer_frames) :
                    Len(WireBytes(SubSeq(peer_frames, 1, i))) <= n })

\* C19: however the reads cut the stream, while the connection is open the
\* frames acted on are the frames that have arrived whole, each once and in
\* the order of the stream (none while the first frame is incomplete), and
\* the bytes that arrived after the last whole frame are still at the end
\* of the read buffer.
C19_IncrementalParser ==
    conn_status = "OPEN" =>
        LET n    == Complete(Received)
            done == Len(WireBytes(SubSeq(peer_frames, 1, n)))
        IN /\ conn_dispatched =
                 [i \in 1 .. n |-> [opcode |-> peer_frames[i].opcode,
                                    payload |-> peer_frames[i].payload]]
           /\ Len(conn_read_buffer) >= Received - done
           /\ SubSeq(conn_read_buffer, Len(conn_read_buffer) - (Received - done) + 1,
                     Len(conn_read_buffer))
                 = SubSeq(WireBytes(peer_frames), done + 1, Received)

\* the connection that acted on a Close frame while it was open has written
\* a Close frame that carries the status code of the frame it received
\* (1000 when that frame had none) and is CLOSED
CloseEchoed ==
    (conn_dispatched # << >> /\ Last(conn_dispatched).opcode = CLOSE) =>
        /\ conn_status = "CLOSED"
        /\ \E i \in DOMAIN conn_written :
              LET reply    == decodeFrame(conn_written[i])
                  received == Last(conn_dispatched).payload
              IN /\ reply.opcode = CLOSE
                 /\ Len(reply.payload) >= 2
                 /\ SubSeq(reply.payload, 1, 2) =
                       (IF Len(received) >= 2 THEN SubSeq(received, 1, 2) ELSE << 3, 232 >>)

\* C20: after a Close frame was received on an open connection, the
\* connection has replied with a Close frame that echoes the status code,
\* is CLOSED, and its TCP connection is closed.
C20_CloseHandshake ==
    /\ CloseEchoed
    /\ conn_status = "CLOSED" => ~socket_open

\* the connection has written a Close frame
CloseSent == \E i \in DOMAIN conn_written : decodeFrame(conn_written[i]).opcode = CLOSE

\* the connection has acted on a Close frame of the peer
CloseReceived == \E i \in DOMAIN conn_dispatched : conn_dispatched[i].opcode = CLOSE

\* the peer has sent a Close frame and all its bytes have been read
CloseArrived ==
    \E i \in 1 .. Complete(Received) : peer_frames[i].opcode = CLOSE

\* C21: a connection that has sent a Close frame without having received
\* one is CLOSING, with its socket open, until the peer's Close frame has
\* arrived (the program has no close timer); once that frame has arrived it
\* has been acted on as a frame, the connection is CLOSED and its socket is
\* closed.
C21_ProactiveCloseWaits ==
    CloseSent =>
        /\ ~CloseArrived => (conn_status = "CLOSING" /\ socket_open)
        /\ CloseArrived => (CloseReceived /\ conn_status = "CLOSED" /\ ~socket_open)

\* the frames of the stream that have arrived whole
Arrived == SubSeq(peer_frames, 1, Complete(Received))

\* the payloads of the frames of fs that have opcode op
RECURSIVE PayloadsOf(_, _)
PayloadsOf(fs, op) ==
    IF fs = << >> THEN << >>
    ELSE (IF Head(fs).opcode = op THEN << Head(fs).payload >> ELSE << >>)
             \o PayloadsOf(Tail(fs), op)

\* the frames the connection wrote, decoded
WrittenFrames == [i \in DOMAIN conn_written |-> decodeFrame(conn_written[i])]

\* the application has closed the connection before the peer did
AppClosed == CloseSent /\ ~CloseReceived

\* C22: when the frame that has arrived on an open connection breaks a rule
\* of the protocol, nothing has been given to onMessage, no Pong has been
\* written, a Close frame with code 1002 has been written and the
\* connection is CLOSED.
C22_ProtocolErrorCloses ==
    (Arrived # << >> /\ IsViolation(Arrived[1]) /\ ~AppClosed) =>
        /\ conn_onMessage = << >>
        /\ PayloadsOf(WrittenFrames, PONG) = << >>
        /\ \E i \in DOMAIN WrittenFrames :
              /\ WrittenFrames[i].opcode = CLOSE
              /\ Len(WrittenFrames[i].payload) >= 2
              /\ SubSeq(WrittenFrames[i].payload, 1, 2) = << 3, 234 >>
        /\ conn_status = "CLOSED"

\* C23: on an open connection whose peer keeps the rules, the Pongs written
\* carry the payloads of the Pings that have arrived, one for each and in
\* their order, and onMessage has got no payload of a Ping.
C23_PingAnsweredOnce ==
    (conn_status = "OPEN" /\ \A i \in DOMAIN peer_frames : ~IsViolation(peer_frames[i])) =>
        /\ PayloadsOf(WrittenFrames, PONG) = PayloadsOf(Arrived, PING)
        /\ \A i \in DOMAIN conn_onMessage : conn_onMessage[i] # PingPayload

(***************************************************************************)
(* Properties of the opening handshake.                                    *)
(***************************************************************************)
\* the value of the last header of req whose name is name, whatever the
\* case of the letters of the name; << >> when there is none
HeaderValue(req, name) ==
    LET is == { i \in DOMAIN req.lines : ToLower(req.lines[i][1]) = name }
    IN IF is = { } THEN << >>
       ELSE req.lines[CHOOSE i \in is : \A j \in is : j <= i][2]

HasHeader(req, name) == \E i \in DOMAIN req.lines : ToLower(req.lines[i][1]) = name

\* C24: the connection that has read a request is OPEN, with a 101 response
\* written, exactly when the request is a GET with an Upgrade header that
\* contains "websocket" and a Connection header that contains "upgrade"
\* (letters of any case), a Sec-WebSocket-Key header and
\* Sec-WebSocket-Version 13; otherwise it is not OPEN and no 101 was written.
C24_UpgradeIffHandshake ==
    up_request # NoUpgradeRequest =>
        LET req == up_request
            handshake ==
                /\ req.version /\ req.method = S_GET
                /\ Contains(ToLower(HeaderValue(req, S_upgrade)), S_websocket)
                /\ Contains(ToLower(HeaderValue(req, S_connection)), S_upgrade)
                /\ HasHeader(req, S_key)
                /\ HeaderValue(req, S_version) = S_13
        IN /\ handshake => (up_status = "OPEN" /\ up_written = << 101 >>)
           /\ ~handshake => (up_status # "OPEN" /\ up_written # << 101 >>)

\* C25: a client whose socket has read, in whatever pieces, the whole of a
\* 101 response with Upgrade: websocket, Connection: Upgrade and
\* Sec-WebSocket-Accept is OPEN (or has gone on from there) and has called
\* onOpen once; on any other response it is never OPEN and onOpen is never
\* called; and the text frames sent behind the response have been given to
\* onMessage once all their bytes are read.
C25_ClientOpensOn101 ==
    cl_response # << >> =>
        LET got == Len(cl_response) + Len(Concat([i \in DOMAIN cl_frames |->
                       buildFrame(cl_frames[i], TEXT)])) - Len(cl_stream)
        IN /\ (cl_response = SwitchingProtocols /\ got >= Len(cl_response)) =>
                 (cl_onOpen = 1 /\ cl_status # "CONNECTING")
           /\ cl_response # SwitchingProtocols => (cl_status # "OPEN" /\ cl_onOpen = 0)
           /\ (cl_response = SwitchingProtocols /\ cl_stream = << >>) =>
                 cl_onMessage = cl_frames

(***************************************************************************)
(* Properties of an HTTP connection with several requests.                 *)
(***************************************************************************)
\* the request line of a request text
LineOf(text) == getlines(text)[1].toks

\* a request text that does not parse: its request line has not three
\* words, or its method is not one the server knows
Malformed(text) ==
    Len(Words(LineOf(text))) < 3 \/ Words(LineOf(text))[1] \notin HttpMethods

Closing(text) == \E i \in DOMAIN text : text[i] = "Connection: close"

\* C26: when the first request of a connection does not parse, the server
\* has written one response, 400, has invoked no route handler, and has
\* closed the connection.
C26_BadRequestRejected ==
    (hc_texts # << >> /\ Malformed(hc_texts[1])) =>
        /\ Len(hc_responses) >= 1 /\ hc_responses[1] = 400
        /\ hc_handled = << >>
        /\ ~hc_open

\* the requests of texts that have a route, as their handlers get them
RECURSIVE Routed(_)
Routed(texts) ==
    IF texts = << >> THEN << >>
    ELSE LET request == parseRequest(Head(texts))
         IN (IF findRoute(request.path, request.method) \in routes
             THEN << request >> ELSE << >>) \o Routed(Tail(texts))

\* C27: on a connection whose requests all parse, the connection is closed
\* once a request with Connection: close has been answered; as long as no
\* request carried it the connection is open, every request has got its
\* own response, and the handlers were invoked with the requests that
\* have a route, one after the other.
C27_CloseOrKeepAlive ==
    (hc_texts # << >> /\ \A i \in DOMAIN hc_texts : ~Malformed(hc_texts[i])) =>
        /\ (\E i \in DOMAIN hc_texts : Closing(hc_texts[i])) => ~hc_open
        /\ (\A i \in DOMAIN hc_texts : ~Closing(hc_texts[i])) =>
              /\ hc_open
              /\ Len(hc_responses) = Len(hc_texts)
              /\ hc_handled = Routed(hc_texts)

(***************************************************************************)
(* The task sequence.                                                      *)
(***************************************************************************)
\* The callbacks of the tasks ts that are not condition steps, in list order.
RECURSIVE CallbacksOf(_)
CallbacksOf(ts) ==
    IF ts = << >> THEN << >>
    ELSE IF ts[1].is_condition THEN CallbacksOf(Tail(ts))
    ELSE << ts[1].callback >> \o CallbacksOf(Tail(ts))

\* The steps that have advanced in the present run.
Advanced == SubSeq(sequence.tasks, 1, sequence.current_task_index)

\* The sequence has run to the end of its list.
Finished ==
    ~ sequence.running /\ sequence.current_task_index = Len(sequence.tasks)

\* C28: in the run that start() begins, whatever pause and resume calls and
\* timer firings come in between, the callbacks that have been invoked are
\* exactly those of the steps that have advanced, each once and in list
\* order, so that no step begins before the one ahead of it has advanced; a
\* task added at any time, by a callback or between two passes of the
\* poller's loop, goes to the end of the list; and a started sequence runs
\* to the end of its list unless it is stopped.
C28_StepsInOrder ==
    /\ [](seq_starts = 1
          => /\ sequence.invoked = CallbacksOf(Advanced)
             /\ sequence.current_task_index <= Len(sequence.tasks))
    /\ [][/\ Len(sequence.tasks') >= Len(sequence.tasks)
          /\ SubSeq(sequence.tasks', 1, Len(sequence.tasks)) = sequence.tasks]_vars
    /\ (sequence.running ~> (Finished \/ seq_last.op = "stop"))

\* The step at index i of the list is a condition step and is the current one.
ConditionStep(i) ==
    /\ sequence.running
    /\ sequence.current_task_index = i
    /\ i < Len(sequence.tasks)
    /\ sequence.tasks[i + 1].is_condition

\* The current step, when there is one.
CurrentTask == sequence.tasks[sequence.current_task_index + 1]

\* The timers that have expired, and whether a timer's callback evaluates
\* the predicate of the current step (sequence.cpp 95-97, 146).
Expired == { t \in sequence.timers : t.left = 0 }

Evaluates(t) == t.callback.lambda = "condition" \/ t.callback.task.is_condition

C30_PauseKeepsRemainder ==
    /\ [][seq_last'.op = "pause"
          => \A t \in sequence.timers :
                t.id = sequence.current_timer_id
                => sequence'.remaining_time_ms =
                       IF sequence.elapsed < t.interval_ms
                       THEN t.interval_ms - sequence.elapsed ELSE 0]_vars
    /\ [][seq_last'.op = "resume"
          => \A t \in sequence'.timers :
                t.id = sequence'.current_timer_id
                => t.interval_ms = sequence.remaining_time_ms]_vars

\* The timers of the sequence that are armed: they are in the poller's table
\* and no clearTimeout has been called for them.
Outstanding == { t \in sequence.timers : t.id \notin sequence.cleanupTasks }

\* C31: whatever start, stop, pause, resume and timer expiries come in
\* whatever order, at most one timer of the sequence is armed and neither
\* cancelled nor fired.
C31_OneOutstandingTimer == Cardinality(Outstanding) <= 1

\* C37: while the sequence is stopped a pass of the poller invokes no
\* callback and changes nothing of the sequence; start() on a running
\* sequence changes nothing; and in a run that start() begins after a stop(),
\* as in the first run, the callbacks invoked are exactly those of the steps
\* that have advanced, each once and in list order (runs without pause()).
C37_StopIsFinal ==
    /\ [][~ sequence.running /\ seq_last'.op = "timers"
          => sequence' = [sequence EXCEPT !.timers = sequence'.timers]]_vars
    /\ [][seq_last'.op = "startAgain" => sequence' = sequence]_vars
    /\ [](seq_pauses = 0 => sequence.invoked = CallbacksOf(Advanced))

(***************************************************************************)
(* The timers of the poller's loop.                                        *)
(***************************************************************************)
\* C35: the callback of a timer for which clearTimeout or clearInterval has
\* been called is not invoked by any later pass of the loop, whether the
\* poll() before it returned an event or timed out.
C35_ClearedNeverFires ==
    [][loop_last'.op = "timers" => loop_last'.invoked \cap loop_cleared = { }]_vars

(***************************************************************************)
(* The notification pipe.                                                  *)
(***************************************************************************)
\* C32: a notify() of another thread is never lost: poll() does not wait for
\* its full timeout while such a notify() is unanswered, and the pipe is
\* drained in the iteration in which poll() reported it readable; a notify()
\* of the reactor's own thread writes nothing.
C32_NotifyNeverLost ==
    /\ [][np_last' = "timeout" => ~ np_unanswered]_vars
    /\ [][np_last' = "drain" /\ notifier.revents => notifier'.bytes = 0]_vars
    /\ [][np_last' = "notifySelf" => notifier'.bytes = notifier.bytes]_vars

(***************************************************************************)
(* The ids of the pollables.                                               *)
(***************************************************************************)
\* C33: an id is never handed out while a pollable with that id is alive,
\* whether or not the counter has wrapped around: no id belongs to a live socket and a live listener
\* at once, every entry of the poller belongs to the live pollable of its
\* id, and a creation leaves every pollable alive before it alive, with its
\* own entry, and takes an id none of them has.
C33_IdsNeverReused ==
    /\ [](registry.sockets \cap registry.listeners = { })
    /\ [](\A e \in registry.pollEntries :
             e.id \in (IF e.type = "SOCKET" THEN registry.sockets ELSE registry.listeners))
    /\ [][id_last'.op = "create" =>
             /\ id_last'.id \notin Alive(registry)
             /\ \A e \in registry.pollEntries : e \in registry'.pollEntries]_vars

(***************************************************************************)
(* Sockets and listeners taken out of their managers.                      *)
(***************************************************************************)
\* The results SocketManager::process gives for the readiness report rev
\* when the sockets of mgr are registered.
SocketResults(mgr, rev) ==
    processEvents([rq |-> pending_read_buffers, wq |-> pending_write_buffers,
                   dat |-> data_, all |-> all_buffers_, free |-> free_buffers_,
                   sent |-> EmptyQueues, res |-> << >>, peer |-> SameBytes],
                  { i \in pollEntries : IsEvent(rev[i]) }, mgr, file_descriptor, rev).res

\* The results of a sequence that are not about socket s.
Without(res, s) == SelectSeq(res, LAMBDA r : r.socket # s)

AllReports == ReadinessReports(pollEntries, {"data", "eof"}, MaxPollables)

\* C34: a poll returns no result for a socket that is not in the
\* SocketManager and no accepted connection when no polled listener is in
\* the ListenerManager, whatever readiness the poller reports; and for
\* every readiness report the results for the registered sockets are those
\* that would be returned if a removed socket were still registered.
C34_RemovedGetNoResults ==
    /\ [][last'.op = "poll" =>
            /\ \A k \in DOMAIN events' :
                  IF events'[k].type = "ACCEPTED"
                    THEN events'[k].socket \notin pollEntries
                    ELSE events'[k].socket \in sockets_
            /\ listeners_ \cap pollEntries = { } =>
                  \A k \in DOMAIN events' : events'[k].type # "ACCEPTED"]_vars
    /\ [](\A s \in sockets \ sockets_ : \A rev \in AllReports :
             SocketResults(sockets_, rev) = Without(SocketResults(sockets_ \cup { s }, rev), s))

\* A poll has just returned while a removed socket is still polled next to
\* a registered one, and there is a readiness report with both ready for
\* which the removed socket would get a result if it were registered.
C34_Witness ==
    /\ last.op = "poll"
    /\ \E s \in (sockets \cap pollEntries) \ sockets_ :
          /\ sockets_ \cap sockets # { }
          /\ \E rev \in AllReports :
                /\ \A i \in pollEntries : IsEvent(rev[i])
                /\ Without(SocketResults(sockets_ \cup { s }, rev), s)
                      # SocketResults(sockets_ \cup { s }, rev)
                /\ SocketResults(sockets_, rev) # << >>

(***************************************************************************)
(* The write queues drain.                                                 *)
(***************************************************************************)
\* Buffer b is in the write queue of socket s.
Queued(s, b) == \E k \in DOMAIN pending_write_buffers[s] : pending_write_buffers[s][k] = b

\* Buffer b is back in the pool.
Released(b) == \E k \in DOMAIN free_buffers_ : free_buffers_[k] = b

BytesOf(response) == { response.headers[i] : i \in DOMAIN response.headers }
                        \cup { response.body[i] : i \in DOMAIN response.body }

\* C38: the bytes of a completed response of a client are bytes the server
\* sent to that client, in answer to the client's current request: none
\* comes from another client's connection or from an earlier response.
C38_ResponsesAreIsolated ==
    \A c \in HttpClients :
        http_clients[c].response.status = "COMPLETED" =>
            \A b \in BytesOf(http_clients[c].response) :
                b.client = c /\ b.request = http_clients[c].sent

(***************************************************************************)
(* The life of a WebSocket connection.                                     *)
(***************************************************************************)
\* The Close frames among the frames written.
CloseFrames(frames) == SelectSeq(frames, LAMBDA fr : fr[1] % 16 = CLOSE)

\* C39: a connection that is CLOSED stays CLOSED; a frame written while the
\* connection is not OPEN is a Close frame; sendText on a connection that is
\* not OPEN writes nothing and calls onError; at most one Close frame is
\* written and onClose is called at most once.
C39_ClosedIsFinal ==
    /\ [][connection.status = "CLOSED" => connection'.status = "CLOSED"]_vars
    /\ [][connection.status # "OPEN" /\ connection'.written # connection.written =>
             /\ Len(connection'.written) = Len(connection.written) + 1
             /\ CloseFrames(connection'.written) # CloseFrames(connection.written)]_vars
    /\ [][life_last' = "sendText" /\ connection.status # "OPEN" =>
             /\ connection'.written = connection.written
             /\ connection'.onError = connection.onError + 1]_vars
    /\ [](Len(CloseFrames(connection.written)) <= 1)
    /\ [](connection.onClose <= 1)

(***************************************************************************)
(* Stopping the executor.                                                  *)
(***************************************************************************)
\* C40: a call of stop() returns, whatever the workers and a concurrent
\* submit() are doing; when it has returned every worker has left its loop
\* and has been joined, and no task starts after it has returned.
C40_StopTerminates ==
    /\ (ex_pc.owner \in Stopping) ~> (ex_pc.owner = "idle")
    /\ [][ex_last'.op = "returned" /\ ex_pc.owner = "clear" =>
             \A w \in WorkerIds : ex_pc.workers[w] = "none"]_vars
    /\ [][ex_last'.op = "workers.clear" =>
             \A w \in WorkerIds : ex_pc.workers[w] = "exited"]_vars
    /\ [][ex_last'.op = "task" => executor.running \/ ex_pc.owner \in Stopping]_vars


====
